---------------------------- MODULE Spec2Model ----------------------------
(***************************************************************************)
(* Tech Analyzer (CESiteAnalyzer): the framework detection engine that the *)
(* popup injects into the inspected page (analyzePage), modelled over a    *)
(* small synthetic document.  Two revisions of the entry point are         *)
(* modelled side by side: src/popup.js ("popup") and src/unnamed/part_000  *)
(* ("part000").  Strings are TLA+ strings; substring search, lower-casing, *)
(* URL resolution and markup serialisation are computed character by       *)
(* character.                                                              *)
(***************************************************************************)
EXTENDS Integers, Sequences, FiniteSets, TLC

VARIABLES
    rev,        \* which revision of the entry point is installed
    window,     \* the page's global object: property name -> JS value
    nodes,      \* the elements of the page, in document order
    runs,       \* how many times the page as it is now has been analysed
    call,       \* what the last analyzePage call did (NoCall before any)
    procs,      \* the analyzePage invocations in progress, step by step
    heap,       \* the confidence fields of the catalogs those invocations hold
    lastError,  \* the error executeScript reported for the last submission
    reportEl,   \* what the popup's report element shows
    trial,      \* one framework evaluated with its signals in a chosen order
    listing,    \* what the last file listing call gave
    body,       \* the classes of document.body in the popup
    storage,    \* chrome.storage.local of the extension
    themeRequest,\* the chrome.storage.local.get of initializeTheme whose callback has not run: the items it read
    prefersDark,\* window.matchMedia((prefers-color-scheme: dark)).matches in the popup
    clicks,     \* clicks on the theme toggle so far
    clipboardData,\* the file names kept for the AI prompt
    copyDisabled,\* the disabled property of the copy-ai-prompt button
    inflight,   \* the submissions whose executeScript has not called back
    shown,      \* the findings the report element displays
    clipboard,  \* the text on the system clipboard
    toast,      \* whether the toast is visible
    submissions,\* the options of the form submissions so far, oldest first
    writes      \* the navigator.clipboard.writeText calls not yet settled

vars == <<rev, window, nodes, runs, call, procs, heap, lastError, reportEl, trial, listing, body, storage, themeRequest, prefersDark, clicks, clipboardData, copyDisabled, inflight, shown, clipboard, toast, submissions, writes>>

----------------------------------------------------------------------------
(* Bounds of the model *)

\* most elements a modelled page holds
MaxNodes == 2

\* most elements of a page on which one framework is evaluated on its own
MaxTrialNodes == 1

\* most script and stylesheet tags of a page whose files are listed
MaxFileNodes == 2

\* most clicks on the theme toggle
MaxClicks == 5

\* most form submissions in one opening of the popup
MaxSubmits == 2

\* most clipboard writes waiting to settle
MaxWrites == 1

\* most analyses of one page between two changes of the page
MaxRuns == 2

----------------------------------------------------------------------------
(* JavaScript strings *)

UpperCase == "ABCDEFGHIJKLMNOPQRSTUVWXYZ"
LowerCase == "abcdefghijklmnopqrstuvwxyz"

\* upper-case letter -> lower-case letter
LowerOf ==
    [c \in {SubSeq(UpperCase, i, i) : i \in 1..Len(UpperCase)} |->
        LET i == CHOOSE j \in 1..Len(UpperCase) : SubSeq(UpperCase, j, j) = c
        IN  SubSeq(LowerCase, i, i)]

\* one character of String.prototype.toLowerCase
LowerChar(c) == IF c \in DOMAIN LowerOf THEN LowerOf[c] ELSE c

\* String.prototype.toLowerCase: a string without upper-case letters is its
\* own lower case, any other is halved down to its characters
RECURSIVE toLowerCase(_)
toLowerCase(s) ==
    IF \A i \in 1..Len(s) : SubSeq(s, i, i) \notin DOMAIN LowerOf THEN s
    ELSE IF Len(s) = 1 THEN LowerChar(s)
    ELSE LET half == Len(s) \div 2
         IN  toLowerCase(SubSeq(s, 1, half)) \o toLowerCase(SubSeq(s, half + 1, Len(s)))

\* String.prototype.includes
includes(s, p) ==
    \E i \in 0..(Len(s) - Len(p)) : SubSeq(s, i + 1, i + Len(p)) = p

startsWith(s, p) == Len(p) <= Len(s) /\ SubSeq(s, 1, Len(p)) = p

\* a JS value used as a condition
Truthy(v) == v \notin {"undefined", "0", "", "null", "false"}

\* Array.prototype.join('') of a sequence of strings
Join(s) ==
    LET joined[i \in 0..Len(s)] == IF i = 0 THEN "" ELSE joined[i - 1] \o s[i]
    IN  joined[Len(s)]

Range(s) == {s[i] : i \in 1..Len(s)}

\* typeof v, for the JS values of the model
TypeOf(v) ==
    CASE v = "undefined" -> "undefined"
      [] v = "0" -> "number"
      [] v \in {"function", "jQuery"} -> "function"
      [] OTHER -> "object"


----------------------------------------------------------------------------
(* The inspected document *)

\* origin against which the page's relative URLs resolve
PageOrigin == "https://site.test"

\* An element is [tag, ns, attrs, text]: attrs is the ordered list of
\* <<name, value>> pairs of its attributes, ns is "html" or "svg".
HasAttr(el, name) == \E i \in 1..Len(el.attrs) : el.attrs[i][1] = name

GetAttr(el, name) ==
    el.attrs[CHOOSE i \in 1..Len(el.attrs) : el.attrs[i][1] = name][2]

\* the resolved URL of a src/href attribute value
ResolveURL(value) ==
    IF value = "" THEN ""
    ELSE IF startsWith(value, "https://") \/ startsWith(value, "http://") THEN value
    ELSE IF startsWith(value, "/") THEN PageOrigin \o value
    ELSE PageOrigin \o "/" \o value

\* The src property: HTMLScriptElement reflects the attribute as a resolved
\* URL; SVGScriptElement has no src property, so reading it gives undefined.
SrcProp(el) == IF el.ns = "html" THEN ResolveURL(GetAttr(el, "src")) ELSE "undefined"

SrcIsString(el) == el.ns = "html"

\* The className property: a string on HTML elements, an SVGAnimatedString
\* (an object with baseVal) on SVG elements.
ClassNameIsString(el) == el.ns = "html"

ClassAttr(el) == IF HasAttr(el, "class") THEN GetAttr(el, "class") ELSE ""

\* serialisation of one attribute and of one element (Element.outerHTML)
AttrHTML(a) == " " \o a[1] \o "=\"" \o a[2] \o "\""

\* an SVG element other than <svg> itself sits in an <svg> parent
ElementHTML(el) ==
    (IF el.ns = "svg" /\ el.tag # "svg" THEN "<svg>" ELSE "")
    \o "<" \o el.tag \o Join([i \in 1..Len(el.attrs) |-> AttrHTML(el.attrs[i])]) \o ">"
    \o (IF el.tag = "link" THEN "" ELSE el.text \o "</" \o el.tag \o ">")
    \o (IF el.ns = "svg" /\ el.tag # "svg" THEN "</svg>" ELSE "")

\* document.documentElement.outerHTML
outerHTML(els) ==
    "<html><head></head><body>" \o Join([i \in 1..Len(els) |-> ElementHTML(els[i])]) \o "</body></html>"

\* document.querySelectorAll for the selectors the engine uses
SelectNodes(els, P(_)) == SelectSeq(els, P)

IsScriptWithSrc(el) == el.tag = "script" /\ HasAttr(el, "src")
IsStylesheetLink(el) ==
    el.tag = "link" /\ HasAttr(el, "href")
    /\ HasAttr(el, "rel") /\ GetAttr(el, "rel") = "stylesheet"
HasClassAttr(el) == HasAttr(el, "class")

\* Elements a modelled page is built from
ReactRoot ==
    [tag |-> "div", ns |-> "html", text |-> "",
     attrs |-> << <<"id", "__next">>, <<"class", "React-App">>, <<"data-reactroot", "">> >>]
AlpineList ==
    [tag |-> "ul", ns |-> "html", text |-> "",
     attrs |-> << <<"class", "nav">>, <<"data-x-data", "{}">> >>]
SvgIcon ==
    [tag |-> "svg", ns |-> "svg", text |-> "",
     attrs |-> << <<"class", "react-icon">> >>]
ReactScript ==
    [tag |-> "script", ns |-> "html", text |-> "",
     attrs |-> << <<"src", "/js/React.min.js">> >>]
SvgScript ==
    [tag |-> "script", ns |-> "svg", text |-> "",
     attrs |-> << <<"src", "anim.js">> >>]
InlineScript ==
    [tag |-> "script", ns |-> "html", text |-> "import('React-DOM')",
     attrs |-> <<>>]
\* a stylesheet served by another origin; text stands for the cssText of its
\* first rules, which the page may not read
BootstrapLink ==
    [tag |-> "link", ns |-> "html", text |-> ":root{--bs-font:Bootstrap}",
     attrs |-> << <<"rel", "stylesheet">>,
                  <<"href", "https://cdn.test/bootstrap.min.css">> >>]

BootstrapTheme ==
    [tag |-> "style", ns |-> "html",
     text |-> ":root{--bs-primary:#0d6efd;--bs-font:Bootstrap}",
     attrs |-> <<>>]

\* script and stylesheet tags for the file listings
AppScript ==
    [tag |-> "script", ns |-> "html", text |-> "",
     attrs |-> << <<"src", "/js/app.js">> >>]
ApiScript ==
    [tag |-> "script", ns |-> "html", text |-> "",
     attrs |-> << <<"src", "/api/users.js">> >>]
QueryScript ==
    [tag |-> "script", ns |-> "html", text |-> "",
     attrs |-> << <<"src", "/js/lib.min.js?v=2">> >>]
DirScript ==
    [tag |-> "script", ns |-> "html", text |-> "",
     attrs |-> << <<"src", "/v1.2/">> >>]
\* a src the URL parser rejects (a space in the host): the src property then
\* reads as the attribute's value
BrokenScript ==
    [tag |-> "script", ns |-> "html", text |-> "",
     attrs |-> << <<"src", "https://bad host/json/lib.js">> >>]
MainCss ==
    [tag |-> "link", ns |-> "html", text |-> "",
     attrs |-> << <<"rel", "stylesheet">>, <<"href", "/css/Main.css">> >>]
ApiCss ==
    [tag |-> "link", ns |-> "html", text |-> "",
     attrs |-> << <<"rel", "stylesheet">>, <<"href", "/api/main.css?v=1">> >>]
PlainCss ==
    [tag |-> "link", ns |-> "html", text |-> "",
     attrs |-> << <<"rel", "stylesheet">>, <<"href", "/css/site.css">> >>]
CdnCss ==
    [tag |-> "link", ns |-> "html", text |-> "",
     attrs |-> << <<"rel", "stylesheet">>, <<"href", "https://cdn.test/site.css">> >>]
FontCss ==
    [tag |-> "link", ns |-> "html", text |-> "",
     attrs |-> << <<"rel", "stylesheet">>,
                  <<"href", "https://fonts.test/css2?family=Inter">> >>]
ComboCss ==
    [tag |-> "link", ns |-> "html", text |-> "",
     attrs |-> << <<"rel", "stylesheet">>, <<"href", "/combo?app.css&theme.css">> >>]
DirCss ==
    [tag |-> "link", ns |-> "html", text |-> "",
     attrs |-> << <<"rel", "stylesheet">>, <<"href", "/skin.css/">> >>]

\* the order in which a page template places them
FileNodeOrder ==
    <<AppScript, ApiScript, QueryScript, DirScript, BrokenScript, SvgScript,
      MainCss, ApiCss, PlainCss, CdnCss, FontCss, ComboCss, DirCss>>

FileNodeKinds == {FileNodeOrder[i] : i \in 1..Len(FileNodeOrder)}

FileRank(el) == CHOOSE i \in 1..Len(FileNodeOrder) : FileNodeOrder[i] = el

\* the elements in the order the page template places them
NodeOrder ==
    <<ReactScript, SvgScript, InlineScript, BootstrapLink, BootstrapTheme,
      ReactRoot, AlpineList, SvgIcon>>

NodeKinds == {NodeOrder[i] : i \in 1..Len(NodeOrder)}

Rank(el) == CHOOSE i \in 1..Len(NodeOrder) : NodeOrder[i] = el

\* The global objects the page's scripts may leave behind: property -> value
EmptyMap == [x \in {} |-> ""]
Windows ==
    { ("React" :> "object"),
      ("React" :> "object") @@ ("ReactDOM" :> "object")
         @@ ("Vue" :> "0") @@ ("vue" :> "object") }

\* window[name]
WindowGet(w, name) == IF name \in DOMAIN w THEN w[name] ELSE "undefined"

\* first position of p in s at or after position from, 0 when there is none
IndexOf(s, p, from) ==
    LET at == {i \in from..(Len(s) - Len(p) + 1) : SubSeq(s, i, i + Len(p) - 1) = p}
    IN  IF at = {} THEN 0 ELSE CHOOSE i \in at : \A j \in at : i <= j

\* the value a style sheet text declares for a custom property, "" when none
DeclaredValue(text, name) ==
    LET at == IndexOf(text, name \o ":", 1)
        from == at + Len(name) + 1
        semi == IndexOf(text, ";", from)
        brace == IndexOf(text, "}", from)
        to == IF semi # 0 /\ (brace = 0 \/ semi < brace) THEN semi
              ELSE IF brace # 0 THEN brace ELSE Len(text) + 1
    IN  IF at = 0 THEN "" ELSE SubSeq(text, from, to - 1)

IsStyleElement(el) == el.tag = "style"

\* getComputedStyle(document.body).getPropertyValue(name): custom properties
\* declared on :root by the page's <style> elements are inherited by <body>
getPropertyValue(els, name) ==
    LET sheets == SelectSeq(els, IsStyleElement)
        declaring == {i \in 1..Len(sheets) : DeclaredValue(sheets[i].text, name) # ""}
    IN  IF declaring = {} THEN ""
        ELSE DeclaredValue(sheets[CHOOSE i \in declaring : \A j \in declaring : j <= i].text, name)

----------------------------------------------------------------------------
(* CSS selectors, as far as the catalogs use them *)

\* the class attribute split at spaces (Element.classList)
RECURSIVE SplitAt(_, _, _)
SplitAt(s, i, start) ==
    IF i > Len(s)
    THEN IF start < i THEN {SubSeq(s, start, i - 1)} ELSE {}
    ELSE IF SubSeq(s, i, i) = " "
         THEN (IF start < i THEN {SubSeq(s, start, i - 1)} ELSE {})
              \cup SplitAt(s, i + 1, i + 1)
         ELSE SplitAt(s, i + 1, start)

ClassTokens(el) == SplitAt(ClassAttr(el), 1, 1)

\* A compound selector.  nested marks an alternative that also needs an
\* ancestor or sibling carrying a class (a combinator before the compound):
\* the modelled pages put every element directly under a bare <body>, so such
\* an alternative matches nothing.
AnyElement ==
    [tag |-> "", id |-> "", classes |-> {}, attrs |-> {}, notAttrs |-> {},
     attrEq |-> {}, classSub |-> {}, nested |-> FALSE]

WithAttr(a) == [AnyElement EXCEPT !.attrs = {a}]
WithAttrs(S) == {WithAttr(a) : a \in S}
WithClasses(S) == [AnyElement EXCEPT !.classes = S]
WithAttrEq(a, v) == [AnyElement EXCEPT !.attrEq = {<<a, v>>}]
WithClassSub(x) == [AnyElement EXCEPT !.classSub = {x}]
Nested(S) == [AnyElement EXCEPT !.classes = S, !.nested = TRUE]

\* attribute names in selectors are ASCII case-insensitive on HTML elements
HasAttrSel(el, a) == HasAttr(el, IF el.ns = "html" THEN toLowerCase(a) ELSE a)

MatchesCompound(el, c) ==
    /\ ~c.nested
    /\ c.tag = "" \/ el.tag = c.tag
    /\ c.id = "" \/ (HasAttr(el, "id") /\ GetAttr(el, "id") = c.id)
    /\ c.classes = {} \/ c.classes \subseteq ClassTokens(el)
    /\ \A a \in c.attrs : HasAttrSel(el, a)
    /\ \A a \in c.notAttrs : ~HasAttrSel(el, a)
    /\ \A p \in c.attrEq : HasAttr(el, p[1]) /\ GetAttr(el, p[1]) = p[2]
    /\ \A x \in c.classSub : HasAttr(el, "class") /\ includes(GetAttr(el, "class"), x)

\* document.querySelectorAll(selector list)
querySelectorAll(els, sel) ==
    LET hit(el) == \E c \in sel : MatchesCompound(el, c)
    IN  SelectSeq(els, hit)

\* whether s is a CSS identifier, as an attribute selector [s] needs
IdentChars == "abcdefghijklmnopqrstuvwxyzABCDEFGHIJKLMNOPQRSTUVWXYZ0123456789-_"
Digits == "0123456789"
IdentCharSet == {SubSeq(IdentChars, i, i) : i \in 1..Len(IdentChars)}
DigitSet == {SubSeq(Digits, i, i) : i \in 1..Len(Digits)}
IsIdent(s) ==
    /\ s # ""
    /\ \A i \in 1..Len(s) : SubSeq(s, i, i) \in IdentCharSet
    /\ SubSeq(s, 1, 1) \notin DigitSet

----------------------------------------------------------------------------
(* The signal catalogs (FRAMEWORK_DETECTION) *)

Global(patterns, weight) == [type |-> "global", patterns |-> patterns, weight |-> weight]
Attribute(patterns, weight) == [type |-> "attribute", patterns |-> patterns, weight |-> weight]
Class(patterns, weight) == [type |-> "class", patterns |-> patterns, weight |-> weight]
File(patterns, weight) == [type |-> "file", patterns |-> patterns, weight |-> weight]
Predicate(type, test, weight) == [type |-> type, test |-> test, weight |-> weight]

\* test: () => !!document.querySelector(sel), or querySelectorAll(sel).length > 0
Exists(sel) == [kind |-> "exists", sel |-> sel]
\* test: () => document.querySelectorAll(sel).length > n
MoreThan(sel, n) == [kind |-> "moreThan", sel |-> sel, n |-> n]
\* test: () => !!document.getElementById(id)
ById(id) == [kind |-> "byId", id |-> id]
\* test counting how many of the selectors sels match something
Matched(sels, atLeast, message) ==
    [kind |-> "matched", sels |-> sels, atLeast |-> atLeast, message |-> message]

Framework(name, signals, minConfidence) ==
    [name |-> name, confidence |-> 0, signals |-> signals, minConfidence |-> minConfidence]

\* FRAMEWORK_DETECTION of src/popup.js
FRAMEWORK_DETECTION_popup ==
  [js |-> <<
     Framework("React", <<
        Global(<<"React", "ReactDOM", "__REACT_DEVTOOLS_GLOBAL_HOOK__">>, 3),
        Attribute(<<"data-reactroot", "data-reactid">>, 5),
        Class(<<"react-", "_react">>, 2),
        File(<<"react.js", "react.min.js", "react-dom">>, 4) >>, 4),
     Framework("AngularJS", <<
        Attribute(<<"ng-app", "ng-controller", "ng-model", "ng-repeat">>, 5),
        Global(<<"angular.module", "angular.bootstrap">>, 4),
        File(<<"angular.js", "angular.min.js">>, 4),
        Predicate("dom", Exists(WithAttrs({"ng-app", "data-ng-app"})), 5) >>, 5),
     Framework("Vue.js", <<
        Global(<<"Vue", "VueRouter", "Vuex">>, 4),
        Attribute(<<"v-if", "v-for", "v-model", "v-on", "v-bind">>, 5),
        Predicate("dom", Exists(WithAttrs({"v-cloak", "v-if", "v-for"})), 5),
        File(<<"vue.js", "vue.min.js", "vue-router">>, 3) >>, 4),
     Framework("Svelte", <<
        Global(<<"Svelte", "__SVELTE">>, 4),
        Attribute(<<"svelte-">>, 5),
        Predicate("dom", Exists(WithAttrs({"svelte-"})), 5),
        File(<<"svelte.js", "svelte.min.js", "svelte-">>, 3) >>, 4),
     Framework("jQuery", <<
        Global(<<"jQuery", "$">>, 3),
        Predicate("dom", [kind |-> "jQueryFn"], 5),
        File(<<"jquery.js", "jquery.min.js">>, 4) >>, 5),
     Framework("Alpine.js", <<
        Global(<<"Alpine">>, 4),
        Attribute(<<"x-data", "x-bind", "x-on", "x-show">>, 5),
        Predicate("dom", Exists(WithAttrs({"x-data"})), 5),
        File(<<"alpine.js", "alpine.min.js">>, 3) >>, 4),
     Framework("Next.js", <<
        Global(<<"__NEXT_DATA__">>, 5),
        Predicate("dom", ById("__next"), 4),
        Attribute(<<"data-next-page", "next-head">>, 4),
        File(<<"_next/">>, 3) >>, 4),
     Framework("Nuxt.js", <<
        Global(<<"__NUXT__">>, 5),
        Predicate("dom", ById("__nuxt"), 4),
        Attribute(<<"data-n-head", "nuxt-link">>, 4),
        File(<<"_nuxt/">>, 3) >>, 4),
     Framework("Ember.js", <<
        Global(<<"Ember", "EmberENV">>, 4),
        Predicate("dom", Exists(WithAttrs({"data-ember-action"})), 5),
        Attribute(<<"data-ember-action", "ember-view">>, 4),
        File(<<"ember.js", "ember.min.js">>, 3) >>, 4) >>,
   css |-> <<
     Framework("Bootstrap", <<
        Class(<<"navbar-expand-", "col-md-", "container-fluid", "row", "btn-primary">>, 4),
        File(<<"bootstrap">>, 3),
        Predicate("styleRule", [kind |-> "cssVar", name |-> "--bs-primary"], 5) >>, 5),
     Framework("Tailwind CSS", <<
        Class(<<"text-", "bg-", "flex", "grid", "px-", "py-", "mx-", "my-">>, 3),
        Predicate("multiClass", [kind |-> "tailwindMulti"], 5),
        File(<<"tailwind">>, 3) >>, 5),
     Framework("Bulma", <<
        Class(<<"is-primary", "is-info", "columns", "navbar-burger">>, 4),
        File(<<"bulma">>, 3),
        Predicate("multiClass",
            Exists({WithClasses({"column", "is-"}), WithClasses({"navbar", "is-"})}), 5) >>, 4),
     Framework("Foundation", <<
        Class(<<"button.", "callout", "small-", "medium-", "large-">>, 3),
        File(<<"foundation">>, 3),
        Predicate("dom", Exists({Nested({"column"}), Nested({"columns"})}), 5) >>, 4),
     Framework("Material UI", <<
        Class(<<"MuiButton-", "MuiInput-", "MuiGrid-">>, 5),
        File(<<"material-ui", "@material">>, 3),
        Predicate("dom", MoreThan({WithClassSub("Mui")}, 3), 4) >>, 4),
     Framework("Semantic UI", <<
        Class(<<"ui segment", "ui button", "ui grid", "ui form">>, 4),
        File(<<"semantic", "semantic-ui">>, 3),
        Predicate("dom",
            MoreThan({WithClasses({"ui", "button"}), WithClasses({"ui", "segment"}),
                      WithClasses({"ui", "grid"})}, 2), 5) >>, 4),
     Framework("Chakra UI", <<
        Attribute(<<"data-chakra-">>, 5),
        Class(<<"chakra-">>, 4),
        File(<<"chakra-ui", "@chakra">>, 3) >>, 4) >>]

VueDirectives ==
    {"v-for", "v-if", "v-bind", "v-model", "v-on", "v-show", "v-cloak", "v-html", "v-text"}

\* FRAMEWORK_DETECTION of src/unnamed/part_000
FRAMEWORK_DETECTION_part000 ==
  [js |-> <<
     Framework("React", <<
        Global(<<"React", "ReactDOM", "__REACT_DEVTOOLS_GLOBAL_HOOK__">>, 3),
        Attribute(<<"data-reactroot", "data-reactid">>, 5),
        Class(<<"react-", "_react">>, 2),
        File(<<"react.js", "react.min.js", "react-dom">>, 4) >>, 4),
     Framework("Angular", <<
        Global(<<"angular", "ng">>, 3),
        Attribute(<<"ng-", "data-ng-", "ng:">>, 5),
        Predicate("dom", Exists(WithAttrs({"ng-app", "data-ng-app"})), 5),
        File(<<"angular.js", "angular.min.js", "angular-route">>, 4) >>, 5),
     Framework("Vue.js", <<
        Global(<<"Vue", "VueRouter", "Vuex">>, 3),
        Predicate("dom",
            Exists({[AnyElement EXCEPT !.attrs = {a}, !.notAttrs = {"data-" \o a}]
                      : a \in VueDirectives}), 5),
        File(<<"vue.js", "vue.min.js", "vue-router">>, 4),
        Predicate("dom",
            Exists({[AnyElement EXCEPT !.id = "app", !.attrs = {"data-v-app"}],
                    [AnyElement EXCEPT !.id = "app", !.attrs = {"data-server-rendered"}]}), 3)
        >>, 6),
     Framework("jQuery", <<
        Global(<<"$", "jQuery">>, 5),
        Predicate("dom", [kind |-> "typeofFunction", names |-> {"jQuery", "$"}], 5),
        File(<<"jquery.min.js", "jquery.js", "jquery-">>, 3) >>, 5),
     Framework("Alpine.js", <<
        Global(<<"Alpine">>, 5),
        Attribute(<<"x-data", "x-bind", "x-on", "x-model">>, 5),
        File(<<"alpine.js", "alpine.min.js">>, 4) >>, 5),
     Framework("Next.js", <<
        Global(<<"__NEXT_DATA__", "__NEXT_LOADED_PAGES__">>, 5),
        Predicate("dom", ById("__next"), 4),
        Predicate("dom", Exists({[AnyElement EXCEPT !.tag = "script", !.id = "__NEXT_DATA__"]}), 5),
        File(<<"_next/static", "_next/">>, 4) >>, 5),
     Framework("Nuxt.js", <<
        Global(<<"__NUXT__", "$nuxt">>, 5),
        Predicate("dom", ById("__nuxt"), 4),
        Predicate("dom", Exists(WithAttrs({"data-n-head"})), 4),
        File(<<"/_nuxt/">>, 3) >>, 5),
     Framework("Ember.js", <<
        Global(<<"Ember", "Em">>, 4),
        Predicate("dom", Exists(WithAttrs({"data-ember-action"})), 5),
        Class(<<"ember-view", "ember-application">>, 5),
        File(<<"ember.js", "ember.min.js">>, 3) >>, 5) >>,
   css |-> <<
     Framework("Bootstrap", <<
        Predicate("dom", Matched(<<
            {WithClasses({"navbar", "navbar-expand-lg"}), WithClasses({"navbar", "navbar-expand-md"}),
             WithClasses({"navbar", "navbar-expand-sm"})},
            {Nested({"btn"})},
            {Nested({"input-group-prepend"}), Nested({"input-group-append"})},
            {Nested({"card-body"})},
            {WithClasses({"d-flex", "justify-content-between"}),
             WithClasses({"d-flex", "align-items-center"})},
            {Nested({"accordion-header"})},
            {WithClasses({"mt-3", "mb-3", "pt-4"}), WithClasses({"my-3", "py-4"}),
             WithClasses({"m-auto", "p-3"})} >>, 2,
            "Bootstrap specific pattern matched: "), 5),
        Predicate("dom", Matched(<<
            {WithAttrEq("data-bs-toggle", "modal")},
            {WithAttrEq("data-bs-toggle", "collapse")},
            {WithAttrEq("data-bs-toggle", "dropdown")},
            {WithAttrEq("data-bs-toggle", "tooltip")},
            {WithAttrEq("data-bs-toggle", "popover")},
            {WithAttr("data-bs-target")},
            {WithAttrEq("data-bs-ride", "carousel")} >>, 1,
            "Bootstrap JS attribute found: "), 4),
        File(<<"bootstrap.min.css", "bootstrap.bundle.min.js", "bootstrap/5", "bootstrap/4">>, 5),
        Predicate("dom", [kind |-> "styleSheetSignature",
                          signatures |-> <<"Bootstrap", "getbootstrap.com", "twitter.com/bootstrap">>], 5),
        Global(<<"bootstrap", "Bootstrap">>, 3) >>, 8),
     Framework("Tailwind CSS", <<
        File(<<"tailwind.css", "tailwind.min.css", "/tailwindcss/">>, 5),
        Predicate("dom", [kind |-> "tailwindDensity"], 7) >>, 8),
     Framework("Material UI", <<
        Class(<<"MuiButton-", "MuiInput-", "MuiTypography-", "makeStyles-">>, 5),
        File(<<"material-ui", "mui">>, 3),
        Predicate("dom",
            Exists({WithClassSub("MuiButton"), WithClassSub("MuiInput"), WithClassSub("MuiPaper")}), 5)
        >>, 5),
     Framework("Semantic UI", <<
        Class(<<"ui segment", "ui grid", "ui button", "ui menu">>, 5),
        File(<<"semantic.min.css", "semantic.css", "semantic-ui">>, 4),
        Predicate("dom",
            Exists({WithClasses({"ui", "button"}), WithClasses({"ui", "grid"}),
                    WithClasses({"ui", "menu"}), WithClasses({"ui", "form"})}), 4) >>, 5),
     Framework("Chakra UI", <<
        Class(<<"chakra-", "css-">>, 3),
        Predicate("dom", Exists(WithAttrs({"data-chakra-component"})), 5),
        Global(<<"ChakraProvider">>, 5) >>, 5) >>]

Revisions == {"popup", "part000"}

FRAMEWORK_DETECTION(r) ==
    IF r = "popup" THEN FRAMEWORK_DETECTION_popup ELSE FRAMEWORK_DETECTION_part000

\* the predicate signal types the revision's engine runs
PredicateTypes(r) == IF r = "popup" THEN {"dom", "styleRule", "multiClass"} ELSE {"dom"}

----------------------------------------------------------------------------
(* The custom predicates (signal.test) of the catalogs *)

\* Tailwind's utility regex of src/popup.js, read as "some class token starts
\* with or is one of the utility names" (exact only for the classes modelled)
TailwindUtilityClass(cls) ==
    \E u \in {"flex", "grid", "px-", "py-", "mx-", "my-", "text-"} : includes(cls, u)

\* the stylesheet behind a <link rel=stylesheet>: cross-origin when its URL
\* is not under the page's origin
CrossOrigin(el) == ~startsWith(ResolveURL(GetAttr(el, "href")), PageOrigin \o "/")

\* document.styleSheets: the sheets of the page's <link rel=stylesheet> and
\* <style> elements, in document order
IsStyleSheetOwner(el) == IsStylesheetLink(el) \/ el.tag = "style"
styleSheets(els) == SelectSeq(els, IsStyleSheetOwner)

\* sheet.cssRules raises a SecurityError on a cross-origin sheet
CssRulesReadable(sheet) == sheet.tag = "style" \/ ~CrossOrigin(sheet)

\* a loop over the sheets that an access error ends: the sheets in front of
\* the first one that cannot be read
SheetsReadUntilError(sheets) ==
    LET denied == {i \in 1..Len(sheets) : ~CssRulesReadable(sheets[i])}
    IN  IF denied = {} THEN sheets
        ELSE SubSeq(sheets, 1, (CHOOSE i \in denied : \A j \in denied : i <= j) - 1)

\* for (const sheet of document.styleSheets) { try { if (sheet.cssRules) ...
\* } catch (e) {} }: the sheets whose rules the loop gets to read
SheetsRead(sheets) == SelectSeq(sheets, CssRulesReadable)

\* "true", "false" or "throws": what calling signal.test() does
TestOutcome(test, w, els) ==
    CASE test.kind = "exists" ->
            IF Len(querySelectorAll(els, test.sel)) > 0 THEN "true" ELSE "false"
      [] test.kind = "moreThan" ->
            IF Len(querySelectorAll(els, test.sel)) > test.n THEN "true" ELSE "false"
      [] test.kind = "byId" ->
            IF \E i \in 1..Len(els) : HasAttr(els[i], "id") /\ GetAttr(els[i], "id") = test.id
            THEN "true" ELSE "false"
      [] test.kind = "matched" ->
            IF Cardinality({i \in 1..Len(test.sels) :
                              Len(querySelectorAll(els, test.sels[i])) > 0}) >= test.atLeast
            THEN "true" ELSE "false"
      [] test.kind = "jQueryFn" ->
            \* typeof window.$ === 'function' && window.$.fn && window.$.fn.jquery
            IF WindowGet(w, "$") = "jQuery" THEN "true" ELSE "false"
      [] test.kind = "typeofFunction" ->
            IF \E n \in test.names : TypeOf(WindowGet(w, n)) = "function"
            THEN "true" ELSE "false"
      [] test.kind = "cssVar" ->
            \* its own try/catch returns false on any error
            IF Truthy(getPropertyValue(els, test.name)) THEN "true" ELSE "false"
      [] test.kind = "tailwindMulti" ->
            LET classed == SelectSeq(els, HasClassAttr)
                hit(el) == Truthy(GetAttr(el, "class")) /\ TailwindUtilityClass(GetAttr(el, "class"))
            IN  IF Len(SelectSeq(classed, hit)) > 5 THEN "true" ELSE "false"
      [] test.kind = "tailwindDensity" ->
            \* el.className.split(...) is not a function on an SVG element;
            \* 5 elements with several utilities each are needed to pass
            LET classed == SelectSeq(els, HasClassAttr)
                several(el) == TailwindUtilityClass(GetAttr(el, "class"))
            IN  IF Len(classed) = 0 THEN "false"
                ELSE IF \E i \in 1..Len(classed) : ~ClassNameIsString(classed[i]) THEN "throws"
                ELSE IF Len(SelectSeq(classed, several)) >= 5 THEN "true" ELSE "false"
      [] test.kind = "styleSheetSignature" ->
            \* every sheet is read inside its own try/catch, inside an outer one
            LET found(sheet) == \E k \in 1..Len(test.signatures) :
                                    includes(sheet.text, test.signatures[k])
            IN  IF Len(SelectSeq(SheetsRead(styleSheets(els)), found)) > 0
                THEN "true" ELSE "false"

\* The debugLog calls a test makes when options.debugMode is set; a test that
\* throws does so before it logs.
TestLog(test, els) ==
    CASE test.kind = "matched" ->
            LET hit(i) == Len(querySelectorAll(els, test.sels[i])) > 0
                hits == SelectSeq([i \in 1..Len(test.sels) |-> i], hit)
            IN  [k \in 1..Len(hits) |-> [message |-> test.message, data |-> <<hits[k]>>]]
      [] test.kind = "styleSheetSignature" ->
            LET found(sheet) == \E k \in 1..Len(test.signatures) :
                                    includes(sheet.text, test.signatures[k])
                links == SelectSeq(els, IsStylesheetLink)
                hits == SelectSeq(SheetsRead(styleSheets(els)), found)
            IN  << [message |-> "Examining " \o ToString(Len(links))
                                \o " stylesheet links for Bootstrap signatures",
                    data |-> [i \in 1..Len(links) |-> ResolveURL(GetAttr(links[i], "href"))]] >>
                \o (IF Len(hits) > 0
                    THEN << [message |-> "Found Bootstrap signature in CSS: "
                                         \o test.signatures[
                                               CHOOSE k \in 1..Len(test.signatures) :
                                                 /\ includes(hits[1].text, test.signatures[k])
                                                 /\ \A j \in 1..(k - 1) :
                                                       ~includes(hits[1].text, test.signatures[j])],
                             data |-> <<hits[1].text>>] >>
                    ELSE <<>>)
      [] test.kind = "tailwindDensity" ->
            LET classed == SelectSeq(els, HasClassAttr)
            IN  IF Len(classed) = 0 THEN <<>>
                ELSE IF \E i \in 1..Len(classed) : ~ClassNameIsString(classed[i]) THEN <<>>
                ELSE << [message |-> "Tailwind detection stats:",
                         data |-> <<Len(classed)>>] >>
      [] OTHER -> <<>>

----------------------------------------------------------------------------
(* getDetectedFrameworks: the scoring engine *)

\* What evaluating one signal does: signalResults (type, weight, detected,
\* details) of the code, the amount it added to framework.confidence, the
\* debugLog calls it made, and whether it raised an exception.
NoFire(signal) ==
    [type |-> signal.type, weight |-> signal.weight, detected |-> FALSE,
     details |-> <<>>, added |-> 0, log |-> <<>>, threw |-> FALSE]

Fire(res, amount, details, log) ==
    [res EXCEPT !.detected = TRUE, !.added = @ + amount,
                !.details = @ \o details, !.log = @ \o log]

\* the preview of a global's value in the debug details
Preview(v) ==
    IF TypeOf(v) = "function" THEN "function()"
    ELSE IF TypeOf(v) = "object" THEN (IF v = "null" THEN "null" ELSE "{}")
    ELSE v

\* a global signal that fires once when any of its patterns is truthy
GlobalSignalOnce(signal, w, debugMode) ==
    IF \E i \in 1..Len(signal.patterns) : Truthy(WindowGet(w, signal.patterns[i]))
    THEN Fire(NoFire(signal), signal.weight, <<>>, <<>>)
    ELSE NoFire(signal)

\* if (signal.type === 'global' && signal.patterns)
GlobalSignal(signal, w, debugMode) ==
    LET step(res, pattern) ==
            IF Truthy(WindowGet(w, pattern))
            THEN Fire(res, signal.weight,
                      <<"Found global variable: " \o pattern>>
                      \o (IF debugMode
                          THEN <<"Type: " \o TypeOf(WindowGet(w, pattern))
                                 \o ", Value: " \o Preview(WindowGet(w, pattern))>>
                          ELSE <<>>),
                      <<>>)
            ELSE res
        acc[i \in 0..Len(signal.patterns)] ==
            IF i = 0 THEN NoFire(signal) ELSE step(acc[i - 1], signal.patterns[i])
    IN  acc[Len(signal.patterns)]

\* What a file signal reads from the page: Array.from(querySelectorAll(
\* 'script[src]')), each tag.src.toLowerCase(), and document.documentElement.
\* outerHTML.toLowerCase().  The page does not change while analyzePage runs,
\* so the values are computed once for the call.
Document(els) ==
    [els |-> els,
     scriptTags |-> SelectSeq(els, IsScriptWithSrc),
     scriptSrcs |-> [i \in 1..Len(SelectSeq(els, IsScriptWithSrc)) |->
                        toLowerCase(SrcProp(SelectSeq(els, IsScriptWithSrc)[i]))],
     pageSource |-> toLowerCase(outerHTML(els))]

\* a file pattern found in a script src counts its weight and 1 on top
FilePatternAmountBoth(weight, inScriptSrc, inPageSource) ==
    IF inScriptSrc THEN weight + 1
    ELSE IF inPageSource THEN 1 ELSE 0

\* every file pattern found counts 1
FilePatternAmountOne(weight, inScriptSrc, inPageSource) ==
    IF inScriptSrc \/ inPageSource THEN 1 ELSE 0

\* what one pattern of a file signal adds: the full weight when a loaded
\* script's URL contains it, 1 when only the page markup does
FilePatternAmount(weight, inScriptSrc, inPageSource) ==
    IF inScriptSrc THEN weight
    ELSE IF inPageSource THEN 1 ELSE 0

\* if (signal.type === 'file' && signal.patterns)
FileSignal(signal, doc, debugMode) ==
    LET scriptTags == doc.scriptTags
        scriptSrcs == doc.scriptSrcs
        pageSource == doc.pageSource
        step(res, pattern) ==
            LET patternLower == toLowerCase(pattern)
                hits == {i \in 1..Len(scriptSrcs) : includes(scriptSrcs[i], patternLower)}
                first == CHOOSE i \in hits : \A j \in hits : i <= j
                inScriptSrc == hits # {} /\ scriptSrcs[first] # ""
                inPageSource == ~inScriptSrc /\ includes(pageSource, patternLower)
                amount == FilePatternAmount(signal.weight, inScriptSrc, inPageSource)
            IN  IF inScriptSrc
                THEN Fire(res, amount,
                          <<"Found script src: " \o scriptSrcs[first]>>,
                          IF debugMode
                          THEN << [message |-> "Script file matching \"" \o pattern \o "\":",
                                   data |-> <<SrcProp(scriptTags[first])>>] >>
                          ELSE <<>>)
                ELSE IF inPageSource
                THEN Fire(res, amount,
                          <<"Found pattern in page source: " \o pattern>>,
                          IF debugMode
                          THEN << [message |-> "Source context containing \"" \o pattern \o "\":",
                                   data |-> <<>>] >>
                          ELSE <<>>)
                ELSE res
        acc[i \in 0..Len(signal.patterns)] ==
            IF i = 0 THEN NoFire(signal) ELSE step(acc[i - 1], signal.patterns[i])
    IN  IF \E i \in 1..Len(scriptTags) : ~SrcIsString(scriptTags[i])
        THEN \* tag.src.toLowerCase(): TypeError, tag.src is undefined
             [NoFire(signal) EXCEPT !.threw = TRUE]
        ELSE acc[Len(signal.patterns)]

\* document.querySelectorAll(`[${pattern}],[data-${pattern}]`): the elements,
\* or a SyntaxError when the selector does not parse
AttributeSelectorValid(pattern) == IsIdent(pattern) /\ IsIdent("data-" \o pattern)

\* a selector of the literal attribute name alone
AttributeMatchesLiteral(els, pattern) == querySelectorAll(els, {WithAttr(pattern)})

AttributeMatches(els, pattern) ==
    querySelectorAll(els, {WithAttr(pattern), WithAttr("data-" \o pattern)})

\* if (signal.type === 'attribute' && signal.patterns)
AttributeSignal(signal, els, debugMode) ==
    LET step(res, pattern) ==
            IF ~AttributeSelectorValid(pattern)
            THEN res   \* catch(e): ignore invalid selector errors
            ELSE LET matchingElements == AttributeMatches(els, pattern)
                 IN  IF Len(matchingElements) > 0
                     THEN Fire(res, signal.weight,
                               <<"Found " \o ToString(Len(matchingElements))
                                 \o " elements with attribute: " \o pattern>>
                               \o (IF debugMode THEN <<"Element samples:">> ELSE <<>>),
                               IF debugMode
                               THEN << [message |-> "Detected " \o ToString(Len(matchingElements))
                                                    \o " elements with attribute: " \o pattern,
                                        data |-> <<>>] >>
                               ELSE <<>>)
                     ELSE res
        acc[i \in 0..Len(signal.patterns)] ==
            IF i = 0 THEN NoFire(signal) ELSE step(acc[i - 1], signal.patterns[i])
    IN  acc[Len(signal.patterns)]

\* el.className, or its baseVal when it is an SVGAnimatedString
BaseVal(el) == ClassAttr(el)
ClassNameOf(el) ==
    IF ClassNameIsString(el) THEN ClassAttr(el)
    ELSE IF Truthy(BaseVal(el)) THEN BaseVal(el) ELSE ""

\* a class loop without the break: every matching element is pushed
ClassFoundAll(els, patternLower) ==
    LET hit(el) == includes(toLowerCase(ClassNameOf(el)), patternLower)
    IN  SelectSeq(SelectSeq(els, HasClassAttr), hit)

\* the elements the class loop pushes to foundElements: it breaks at the first
ClassFound(els, patternLower) ==
    LET elements == SelectSeq(els, HasClassAttr)
        hits == {i \in 1..Len(elements) :
                    includes(toLowerCase(ClassNameOf(elements[i])), patternLower)}
    IN  IF hits = {} THEN <<>>
        ELSE << elements[CHOOSE i \in hits : \A j \in hits : i <= j] >>

\* if (signal.type === 'class' && signal.patterns)
ClassSignal(signal, els, debugMode) ==
    LET step(res, pattern) ==
            LET foundElements == ClassFound(els, toLowerCase(pattern))
            IN  IF Len(foundElements) > 0
                THEN Fire(res, signal.weight * Len(foundElements),
                          <<"Found " \o ToString(Len(foundElements))
                            \o " elements with class matching: " \o pattern,
                            "Example class: " \o ClassNameOf(foundElements[1])>>
                          \o (IF debugMode
                              THEN <<"Element samples with matching classes:">> ELSE <<>>),
                          <<>>)
                ELSE res
        acc[i \in 0..Len(signal.patterns)] ==
            IF i = 0 THEN NoFire(signal) ELSE step(acc[i - 1], signal.patterns[i])
    IN  acc[Len(signal.patterns)]

PassedMessage(type) ==
    CASE type = "dom" -> "DOM structure test passed"
      [] type = "styleRule" -> "Style rule test passed"
      [] type = "multiClass" -> "Multi-class pattern test passed"

\* a predicate signal run outside any try: a throwing test raises
PredicateSignalUnguarded(signal, w, els, debugMode) ==
    IF TestOutcome(signal.test, w, els) = "true"
    THEN Fire(NoFire(signal), signal.weight, <<PassedMessage(signal.type)>>,
              IF debugMode THEN TestLog(signal.test, els) ELSE <<>>)
    ELSE [NoFire(signal) EXCEPT
            !.threw = TestOutcome(signal.test, w, els) = "throws",
            !.log = IF debugMode THEN TestLog(signal.test, els) ELSE <<>>]

\* try { if (signal.test()) {...} } catch(e) {}
PredicateSignal(signal, w, els, debugMode) ==
    IF TestOutcome(signal.test, w, els) = "true"
    THEN Fire(NoFire(signal), signal.weight, <<PassedMessage(signal.type)>>,
              IF debugMode THEN TestLog(signal.test, els) ELSE <<>>)
    ELSE [NoFire(signal) EXCEPT
            !.log = IF debugMode THEN TestLog(signal.test, els) ELSE <<>>]

\* the body of framework.signals.forEach(signal => {...})
EvaluateSignal(signal, r, w, doc, debugMode) ==
    IF "patterns" \in DOMAIN signal
    THEN CASE signal.type = "global" -> GlobalSignal(signal, w, debugMode)
           [] signal.type = "file" -> FileSignal(signal, doc, debugMode)
           [] signal.type = "attribute" -> AttributeSignal(signal, doc.els, debugMode)
           [] signal.type = "class" -> ClassSignal(signal, doc.els, debugMode)
           [] OTHER -> NoFire(signal)
    ELSE IF signal.type \in PredicateTypes(r) /\ "test" \in DOMAIN signal
         THEN PredicateSignal(signal, w, doc.els, debugMode)
         ELSE NoFire(signal)

NoCall == [outcome |-> "none"]

\* a pass that starts from the confidence the previous call left on the
\* framework instead of resetting it
StaleConfidence(framework) ==
    IF call.outcome = "none" THEN 0
    ELSE LET left == {e \in Range(call.js.evaluated) \cup Range(call.css.evaluated) :
                        e.name = framework.name}
         IN  IF left = {} THEN 0 ELSE (CHOOSE e \in left : TRUE).confidence

\* framework.confidence = 0, the first statement of a framework's pass
ResetConfidence(framework) == 0

\* a threshold that must be exceeded, not just met
MeetsThresholdStrictly(confidence, framework) == confidence > framework.minConfidence

\* if (framework.confidence >= framework.minConfidence)
MeetsThreshold(confidence, framework) == confidence >= framework.minConfidence

\* a signal that fires sets the confidence instead of adding to it
RecordSignalAssigning(acc, res) ==
    [acc EXCEPT !.confidence = IF res.detected THEN res.added ELSE @,
                !.results = Append(@, res),
                !.detectionDetails = IF res.detected THEN Append(@, res) ELSE @,
                !.log = @ \o res.log,
                !.threw = res.threw]

\* The end of the signal loop's body: the signal's contribution is already in
\* framework.confidence; detectionDetails keeps the signals that fired.
\* results lists what every signal evaluated did.
RecordSignal(acc, res) ==
    [acc EXCEPT !.confidence = @ + res.added,
                !.results = Append(@, res),
                !.detectionDetails = IF res.detected THEN Append(@, res) ELSE @,
                !.log = @ \o res.log,
                !.threw = res.threw]

\* One framework's pass over its signals; an exception ends the pass.
EvaluateFramework(framework, r, w, doc, debugMode) ==
    LET step(prev, signal) ==
            IF prev.threw THEN prev
            ELSE RecordSignal(prev, EvaluateSignal(signal, r, w, doc, debugMode))
        acc[i \in 0..Len(framework.signals)] ==
            IF i = 0
            THEN [name |-> framework.name, minConfidence |-> framework.minConfidence,
                  confidence |-> ResetConfidence(framework), results |-> <<>>,
                  detectionDetails |-> <<>>, log |-> <<>>, threw |-> FALSE]
            ELSE step(acc[i - 1], framework.signals[i])
    IN  acc[Len(framework.signals)]

\* the debugLog calls made for a framework that met its threshold
DetectedLog(fw) ==
    << [message |-> "Detected " \o fw.name \o " with confidence score: "
                    \o ToString(fw.confidence) \o "/" \o ToString(fw.minConfidence),
        data |-> <<>>] >>
    \o [i \in 1..Len(fw.detectionDetails) |->
          [message |-> "Signal type: " \o fw.detectionDetails[i].type
                       \o " (weight: " \o ToString(fw.detectionDetails[i].weight) \o ")",
           data |-> fw.detectionDetails[i].details]]

NotRun == [ran |-> FALSE, threw |-> FALSE, detectedFrameworks |-> <<>>,
           evaluated |-> <<>>, log |-> <<>>]

\* a threshold check that puts the detected name at the front of the list
RecordFrameworkFirst(acc, framework, fw, debugMode) ==
    IF fw.threw
    THEN [acc EXCEPT !.evaluated = Append(@, fw), !.threw = TRUE, !.log = @ \o fw.log]
    ELSE IF MeetsThreshold(fw.confidence, framework)
    THEN [acc EXCEPT !.evaluated = Append(@, fw),
                     !.detectedFrameworks = <<framework.name>> \o @,
                     !.log = @ \o fw.log \o (IF debugMode THEN DetectedLog(fw) ELSE <<>>)]
    ELSE [acc EXCEPT !.evaluated = Append(@, fw), !.log = @ \o fw.log]

\* a threshold check whose push stands inside the debug branch
RecordFrameworkInDebug(acc, framework, fw, debugMode) ==
    IF fw.threw
    THEN [acc EXCEPT !.evaluated = Append(@, fw), !.threw = TRUE, !.log = @ \o fw.log]
    ELSE IF MeetsThreshold(fw.confidence, framework) /\ debugMode
    THEN [acc EXCEPT !.evaluated = Append(@, fw),
                     !.detectedFrameworks = Append(@, framework.name),
                     !.log = @ \o fw.log \o DetectedLog(fw)]
    ELSE [acc EXCEPT !.evaluated = Append(@, fw), !.log = @ \o fw.log]

\* The threshold check that ends a framework's pass: fw is the framework
\* after its signals were evaluated.
RecordFramework(acc, framework, fw, debugMode) ==
    IF fw.threw
    THEN [acc EXCEPT !.evaluated = Append(@, fw), !.threw = TRUE, !.log = @ \o fw.log]
    ELSE IF MeetsThreshold(fw.confidence, framework)
    THEN [acc EXCEPT !.evaluated = Append(@, fw),
                     !.detectedFrameworks = Append(@, framework.name),
                     !.log = @ \o fw.log \o (IF debugMode THEN DetectedLog(fw) ELSE <<>>)]
    ELSE [acc EXCEPT !.evaluated = Append(@, fw), !.log = @ \o fw.log]

\* getDetectedFrameworks(frameworkList)
getDetectedFrameworks(frameworkList, r, w, doc, debugMode) ==
    LET step(prev, framework) ==
            IF prev.threw THEN prev
            ELSE RecordFramework(prev, framework,
                                 EvaluateFramework(framework, r, w, doc, debugMode),
                                 debugMode)
        acc[i \in 0..Len(frameworkList)] ==
            IF i = 0 THEN [NotRun EXCEPT !.ran = TRUE]
            ELSE step(acc[i - 1], frameworkList[i])
    IN  acc[Len(frameworkList)]

\* a sentinel pushed whatever the list holds
AlwaysSentinel(detected) == Append(detected, "None detected")

\* if (list.length === 0) list.push('None detected')
WithSentinel(detected) == IF Len(detected) = 0 THEN <<"None detected">> ELSE detected

\* a flag read as a family is enabled unless it is explicitly false
OptionNotFalse(options, name) == name \notin DOMAIN options \/ options[name]

\* if (options.jsFrameworks), if (options.cssFrameworks): a field the caller
\* left out reads as undefined
OptionSet(options, name) == name \in DOMAIN options /\ options[name]

\* what the two passes leave in findings, and whether one of them raised
FamilyResults(options, js, css) ==
    [js |-> js, css |-> css, threw |-> js.threw \/ css.threw,
     jsFrameworks |-> IF OptionSet(options, "jsFrameworks") THEN WithSentinel(js.detectedFrameworks)
                      ELSE <<>>,
     cssFrameworks |-> IF OptionSet(options, "cssFrameworks") THEN WithSentinel(css.detectedFrameworks)
                       ELSE <<>>]

\* if (options.cssFrameworks) {...}, reached when the JS pass did not raise
DetectCSS(options, r, w, doc, js) ==
    FamilyResults(options, js,
                  IF OptionSet(options, "cssFrameworks") /\ ~js.threw
                  THEN getDetectedFrameworks(FRAMEWORK_DETECTION(r).css, r, w, doc,
                                             options.debugMode)
                  ELSE NotRun)

\* The framework part of analyzePage (src/popup.js), detectFrameworks
\* (src/unnamed/part_000): the JS family, then the CSS family.
detectFrameworks(options, r, w, doc) ==
    DetectCSS(options, r, w, doc,
              IF OptionSet(options, "jsFrameworks")
              THEN getDetectedFrameworks(FRAMEWORK_DETECTION(r).js, r, w, doc,
                                         options.debugMode)
              ELSE NotRun)

----------------------------------------------------------------------------
(* The file listings *)

\* String.prototype.split(sep) for a separator of one character
Split(s, sep) ==
    LET at == {i \in 1..Len(s) : SubSeq(s, i, i) = sep}
        n == Cardinality(at)
        pos[k \in 0..(n + 1)] ==
            IF k = 0 THEN 0
            ELSE IF k = n + 1 THEN Len(s) + 1
            ELSE CHOOSE i \in at : Cardinality({j \in at : j < i}) = k - 1
    IN  [k \in 1..(n + 1) |-> SubSeq(s, pos[k - 1] + 1, pos[k] - 1)]

\* Array.prototype.pop() of a split: the last part
Pop(parts) == parts[Len(parts)]

\* String.prototype.endsWith
endsWith(s, p) == Len(p) <= Len(s) /\ SubSeq(s, Len(s) - Len(p) + 1, Len(s)) = p

\* String.prototype.replace(p, '') : the first occurrence of p taken out
Remove(s, p) ==
    LET at == IndexOf(s, p, 1)
    IN  IF at = 0 THEN s
        ELSE SubSeq(s, 1, at - 1) \o SubSeq(s, at + Len(p), Len(s))

\* what new URL gives where the constructor throws
InvalidURL == [ok |-> FALSE, hostname |-> "", pathname |-> "", search |-> ""]

\* s up to the position at, the whole of s when at is 0
Before(s, at) == IF at = 0 THEN s ELSE SubSeq(s, 1, at - 1)

\* s after the position at, "" when at is 0
After(s, at) == IF at = 0 THEN "" ELSE SubSeq(s, at + 1, Len(s))

\* the URL with the host given and the path and query of rest, mark being
\* the position of the first '?' in rest
ParsedURL(host, rest, mark) ==
    IF host = "" \/ includes(host, " ") THEN InvalidURL
    ELSE [ok |-> TRUE, hostname |-> toLowerCase(host),
          pathname |-> IF Before(rest, mark) = "" THEN "/" ELSE Before(rest, mark),
          search |-> IF After(rest, mark) = "" THEN "" ELSE "?" \o After(rest, mark)]

\* the fragment taken off
WithoutHash(s) == Before(s, IndexOf(s, "#", 1))

\* where the host of "host/path?query#hash" ends
HostEnd(rest) ==
    LET ends == {i \in 1..Len(rest) : SubSeq(rest, i, i) \in {"/", "?", "#"}}
    IN  IF ends = {} THEN Len(rest) + 1
        ELSE CHOOSE i \in ends : \A j \in ends : i <= j

AfterHost(rest, hostEnd) ==
    ParsedURL(SubSeq(rest, 1, hostEnd - 1),
              WithoutHash(SubSeq(rest, hostEnd, Len(rest))),
              IndexOf(WithoutHash(SubSeq(rest, hostEnd, Len(rest))), "?", 1))

AfterScheme(href, scheme) ==
    IF scheme = 0 THEN InvalidURL
    ELSE AfterHost(SubSeq(href, scheme + 1, Len(href)),
                   HostEnd(SubSeq(href, scheme + 1, Len(href))))

\* new URL(href): ok is FALSE where the constructor throws (no http(s)
\* scheme, no host, a space in the host); search is "" for an empty query
URL(href) ==
    AfterScheme(href, IF startsWith(href, "https://") THEN 8
                      ELSE IF startsWith(href, "http://") THEN 7 ELSE 0)

\* what the map callback gives for one tag: name is "" for null
Skipped == [threw |-> FALSE, name |-> ""]
Named(filename) == [threw |-> FALSE, name |-> filename]
Thrown == [threw |-> TRUE, name |-> ""]

\* the filter of the callback's try block
SkipsURL(url) ==
    \/ includes(url.pathname, "/api/")
    \/ includes(url.pathname, "/json")
    \/ url.search # ""
    \/ ~includes(url.pathname, ".")

\* the catch block of the callback: the fallback for a src that is no URL
FallbackName(src, parts) ==
    IF \/ \E k \in 1..(Len(parts) - 1) : parts[k] = "api"
       \/ ~includes(parts[Len(parts)], ".")
       \/ includes(src, "?")
    THEN Skipped
    ELSE Named(Pop(parts))

\* the try block of the callback on the URL parsed
ParsedName(url) ==
    IF SkipsURL(url) THEN Skipped ELSE Named(Pop(Split(url.pathname, "/")))

NameOfURL(src, url) == IF url.ok THEN ParsedName(url) ELSE FallbackName(src, Split(src, "/"))

\* The map callback of the listings of src/popup.js, src/js/file-analyzer.js
\* and src/unnamed/part_001, for a tag whose src/href property reads as src
\* (isString is FALSE when the property is undefined): new URL(undefined)
\* throws, and so does undefined.split in the catch block.
FileNameOf(isString, src) == IF ~isString THEN Thrown ELSE NameOfURL(src, URL(src))

\* the names of the callback's results that are not null or empty
NamesOf(mapped) ==
    LET kept(m) == m.name # ""
    IN  [k \in 1..Len(SelectSeq(mapped, kept)) |-> SelectSeq(mapped, kept)[k].name]

\* if (files.length === 0) return ['None found']
OrNoneFound(files) == IF Len(files) = 0 THEN <<"None found">> ELSE files

\* .filter(filename => filename) and the 'None found' fallback over the
\* callback's results; an exception in the callback leaves the listing
Listed(mapped) ==
    IF \E k \in 1..Len(mapped) : mapped[k].threw
    THEN [threw |-> TRUE, files |-> <<>>]
    ELSE [threw |-> FALSE, files |-> OrNoneFound(NamesOf(mapped))]

\* the callback over the script[src] elements
ScriptNames(scripts) ==
    [k \in 1..Len(scripts) |-> FileNameOf(SrcIsString(scripts[k]), SrcProp(scripts[k]))]

\* findJavaScriptFiles(): the same in every revision
findJavaScriptFiles(els) == Listed(ScriptNames(SelectSeq(els, IsScriptWithSrc)))

\* the names findCSSFiles of src/unnamed/part_000 always lists
importantCssPatterns ==
    <<"style.min.css", "main.css", "styles.css", "bundle.css", "app.css", "theme.css">>

\* for (const pattern of importantCssPatterns) if (href.includes(pattern)):
\* the first pattern found in href, "" when there is none
ImportantName(href) ==
    LET found == {k \in 1..Len(importantCssPatterns) : includes(href, importantCssPatterns[k])}
    IN  IF found = {} THEN ""
        ELSE importantCssPatterns[CHOOSE k \in found : \A j \in found : k <= j]

\* the try block of findCSSFiles in src/unnamed/part_000 on the URL parsed,
\* filename being the last part of its path
CssParsedName(url, filename) ==
    IF \/ includes(url.pathname, "/api/")
       \/ includes(url.pathname, "/json")
       \/ (~endsWith(toLowerCase(url.pathname), ".css") /\ ~includes(url.pathname, ".css"))
    THEN Skipped
    ELSE IF filename = "" \/ ~includes(filename, ".")
    THEN Named(Remove(url.hostname, "www.") \o "-stylesheet.css")
    ELSE Named(filename)

\* its catch block on the lower-cased href attribute
CssFallbackName(href, important, filename) ==
    IF href = "" THEN Skipped
    ELSE IF important # "" THEN Named(important)
    ELSE IF filename = "" \/ ~includes(filename, ".css") THEN Skipped
    ELSE Named(filename)

CssNameOfURL(important, url, attr) ==
    IF important # "" THEN Named(important)
    ELSE IF url.ok THEN CssParsedName(url, Pop(Split(url.pathname, "/")))
    ELSE CssFallbackName(attr, ImportantName(attr), Pop(Split(attr, "/")))

\* the map callback of findCSSFiles in src/unnamed/part_000, for a link whose
\* href property reads as href and whose href attribute is attr
CssNameOf(href, attr) ==
    CssNameOfURL(ImportantName(toLowerCase(href)), URL(href), toLowerCase(attr))

\* a filter that keeps every name, repeated or not
KeepAll(names) == names

\* .filter with uniqueFilenames: the first occurrence of every name
Unique(names) ==
    LET first(k) == \A j \in 1..(k - 1) : names[j] # names[k]
        at == SelectSeq([k \in 1..Len(names) |-> k], first)
    IN  [k \in 1..Len(at) |-> names[at[k]]]

\* the callback of src/unnamed/part_000 over the stylesheet links
CssNames(links) ==
    [k \in 1..Len(links) |->
        CssNameOf(ResolveURL(GetAttr(links[k], "href")), GetAttr(links[k], "href"))]

\* the callback of the other revisions over the stylesheet links
LinkNames(links) ==
    [k \in 1..Len(links) |-> FileNameOf(TRUE, ResolveURL(GetAttr(links[k], "href")))]

\* findCSSFiles(): r tells the revision
findCSSFiles(r, els) ==
    IF r = "part000"
    THEN [threw |-> FALSE,
          files |-> OrNoneFound(Unique(NamesOf(CssNames(SelectSeq(els, IsStylesheetLink)))))]
    ELSE Listed(LinkNames(SelectSeq(els, IsStylesheetLink)))

----------------------------------------------------------------------------
(* analyzePage *)

ErrorFindings ==
    [jsFrameworks |-> <<"Error in detection">>, cssFrameworks |-> <<"Error in detection">>,
     jsFiles |-> <<>>, cssFiles |-> <<>>]

NoFiles == [threw |-> FALSE, files |-> <<>>]

\* if (options.listJS) findings.jsFiles = ..., if (options.listCSS)
\* findings.cssFiles = ...: the lists of the options that are set; threw
\* tells that a listing raised an exception
FileLists(options, r, els) ==
    [js |-> IF OptionSet(options, "listJS") THEN findJavaScriptFiles(els) ELSE NoFiles,
     css |-> IF OptionSet(options, "listCSS") THEN findCSSFiles(r, els) ELSE NoFiles]

\* How analyzePage ends: outcome "returned" with findings, "caught" when
\* part_000's catch block builds the findings, "threw" when the exception
\* leaves the function (src/popup.js has no try). d is what the detection
\* did, lists what the file listings did.
Outcome(options, r, d, lists) ==
    [options |-> options, js |-> d.js, css |-> d.css,
     log |-> d.js.log \o d.css.log,
     outcome |-> IF ~d.threw /\ ~lists.js.threw /\ ~lists.css.threw THEN "returned"
                 ELSE IF r = "popup" THEN "threw" ELSE "caught",
     findings |-> IF ~d.threw /\ ~lists.js.threw /\ ~lists.css.threw
                  THEN [jsFrameworks |-> d.jsFrameworks, cssFrameworks |-> d.cssFrameworks,
                        jsFiles |-> lists.js.files, cssFiles |-> lists.css.files]
                  ELSE IF r = "popup" THEN [thrown |-> "TypeError"] ELSE ErrorFindings]

\* analyzePage(options)
analyzePage(options, r, w, doc) ==
    Outcome(options, r, detectFrameworks(options, r, w, doc), FileLists(options, r, doc.els))

----------------------------------------------------------------------------
(* The state machine: a page that loads, and the popup analysing it *)

\* the options handleFormSubmit builds from the form's check boxes, and the
\* options of a caller that leaves family flags out
FormOptions ==
    [jsFrameworks : BOOLEAN, cssFrameworks : BOOLEAN, listJS : {FALSE},
     listCSS : {FALSE}, debugMode : BOOLEAN]
PartialOptions ==
    { [cssFrameworks |-> TRUE, debugMode |-> FALSE],
      [jsFrameworks |-> TRUE, debugMode |-> FALSE],
      [debugMode |-> FALSE] }
OptionValues == FormOptions \cup PartialOptions

\* what the report element shows: nothing, an error line, the result
\* sections, or the line shown when no option is ticked
EmptyReport == [kind |-> "empty", text |-> "", sections |-> <<>>]

\* a value that may be undefined
Undefined == [defined |-> FALSE, value |-> EmptyMap]
Defined(v) == [defined |-> TRUE, value |-> v]
Field(findings, key) ==
    IF key \in DOMAIN findings THEN Defined(findings[key]) ELSE Undefined

\* addResultSection(title, items, isListFormat = false): the section appended
\* to output
addResultSection(title, items, isListFormat) ==
    LET none == \/ ~items.defined
                \/ Len(items.value) = 0
                \/ /\ Len(items.value) = 1
                   /\ (items.value[1] = "None found" \/ items.value[1] = "None detected")
    IN  [title |-> title,
         body |-> IF none THEN "No results"
                  ELSE IF isListFormat THEN "ul" ELSE "framework-results",
         items |-> IF none THEN <<>> ELSE items.value]

\* displayResults(findings, options, reportEl): the new content of reportEl
displayResults(findings, options) ==
    LET section(flag, title, key, isListFormat) ==
            IF OptionSet(options, flag)
            THEN <<addResultSection(title, Field(findings, key), isListFormat)>>
            ELSE <<>>
        output == section("jsFrameworks", "JS Frameworks", "jsFrameworks", FALSE)
                  \o section("cssFrameworks", "CSS Frameworks", "cssFrameworks", FALSE)
                  \o section("listJS", "JavaScript files", "jsFiles", TRUE)
                  \o section("listCSS", "CSS files", "cssFiles", TRUE)
    IN  IF output # <<>>
        THEN [kind |-> "sections", text |-> "", sections |-> output]
        ELSE [kind |-> "message", text |-> "No analysis options selected.",
              sections |-> <<>>]

\* the message of an exception raised in the page
PageException == "Uncaught TypeError"

\* chrome.runtime.lastError.message on a tab that may not be scripted
CannotAccess == "Cannot access contents of the page"

\* the error line of the report element
ErrorReport(r, message) ==
    [kind |-> "error",
     text |-> (IF r = "popup" THEN "Error: " ELSE "Error analyzing page: ") \o message,
     sections |-> <<>>]

\* the callback shows the results whatever executeScript reported
OnExecutedIgnoringError(r, error, result, options) ==
    displayResults(IF result.defined THEN result.value ELSE EmptyMap, options)

\* the continuation of chrome.scripting.executeScript: error is "" when the
\* script ran, result is what analyzePage returned
OnExecuted(r, error, result, options) ==
    IF error # "" THEN ErrorReport(r, error)
    ELSE IF r = "popup"
    THEN displayResults(IF result.defined THEN result.value ELSE EmptyMap, options)
    ELSE IF result.defined THEN displayResults(result.value, options)
    ELSE EmptyReport

\* results[0].result after the call c
Result(c) == IF c.outcome = "threw" THEN Undefined ELSE Defined(c.findings)

\* what executeScript reports after the call c: no error when analyzePage
\* returned; when it threw, the browser either reports the exception as the
\* error or hands over a result that is not set
Delivery(c) == IF c.outcome = "threw" THEN {"", PageException} ELSE {""}

----------------------------------------------------------------------------
(* The popup: the form, the clipboard data and the copy button *)

\* the revisions of the popup script: src/unnamed/part_001 is the earliest,
\* src/js/popup.js has the handler of src/unnamed/part_000
PopupRevisions == {"popup", "part000", "part001"}

\* the revision whose executeScript continuation r has
HandlerOf(r) == IF r = "part001" THEN "popup" ELSE r

\* let clipboardData = { jsFiles: [], cssFiles: [] }
EmptyClipboard == [jsFiles |-> <<>>, cssFiles |-> <<>>]

\* the report element displays no findings
NoShown == [displayed |-> FALSE]

\* the catalogs of analyzePage in src/unnamed/part_001
JS_FRAMEWORKS ==
    << [name |-> "React",
        patterns |-> <<"React", "__REACT_DEVTOOLS_GLOBAL_HOOK__", "react.js",
                       "react.min.js", "react-dom">>],
       [name |-> "AngularJS",
        patterns |-> <<"ngApp", "angular.module", "angular.js", "angular.min.js",
                       "ng-app", "ng-controller">>],
       [name |-> "Vue.js", patterns |-> <<"Vue", "vue.js", "vue.min.js">>],
       [name |-> "Svelte", patterns |-> <<"Svelte", "svelte">>] >>

CSS_FRAMEWORKS ==
    << [name |-> "Bootstrap", patterns |-> <<"bootstrap">>],
       [name |-> "Tailwind CSS", patterns |-> <<"tailwind", "tw-">>],
       [name |-> "Bulma", patterns |-> <<"bulma">>],
       [name |-> "Foundation", patterns |-> <<"foundation">>] >>

\* the names of the frameworks of a catalog one of whose patterns matches
Matching(catalog, hasMatch(_)) ==
    LET hit(fw) == \E k \in 1..Len(fw.patterns) : hasMatch(fw.patterns[k])
        found == SelectSeq(catalog, hit)
    IN  [k \in 1..Len(found) |-> found[k].name]

\* analyzePage(options) of src/unnamed/part_001: findings has only the keys
\* of the options that are set
legacyAnalyzePage(options, w, els) ==
    LET doc == Document(els)
        links == SelectSeq(els, IsStylesheetLink)
        styleSrcs == [k \in 1..Len(links) |-> toLowerCase(ResolveURL(GetAttr(links[k], "href")))]
        jsMatch(pattern) ==
            \/ Truthy(WindowGet(w, pattern))
            \/ \E k \in 1..Len(doc.scriptSrcs) : includes(doc.scriptSrcs[k], toLowerCase(pattern))
            \/ includes(doc.pageSource, toLowerCase(pattern))
        cssMatch(pattern) ==
            \E k \in 1..Len(styleSrcs) : includes(styleSrcs[k], toLowerCase(pattern))
        part(flag, key, value) ==
            IF OptionSet(options, flag) THEN (key :> value) ELSE EmptyMap
        threw == \/ /\ OptionSet(options, "jsFrameworks")
                    /\ \E k \in 1..Len(doc.scriptTags) : ~SrcIsString(doc.scriptTags[k])
                 \/ /\ OptionSet(options, "listJS")
                    /\ findJavaScriptFiles(els).threw
    IN  IF threw
        THEN [options |-> options, outcome |-> "threw", findings |-> [thrown |-> "TypeError"]]
        ELSE [options |-> options, outcome |-> "returned",
              findings |->
                  part("jsFrameworks", "jsFrameworks", WithSentinel(Matching(JS_FRAMEWORKS, jsMatch)))
                  @@ part("cssFrameworks", "cssFrameworks", WithSentinel(Matching(CSS_FRAMEWORKS, cssMatch)))
                  @@ part("listJS", "jsFiles", findJavaScriptFiles(els).files)
                  @@ part("listCSS", "cssFiles", findCSSFiles("part001", els).files)]

\* the analyzePage the popup of revision r injects
InjectedCall(r, options, w, els) ==
    IF r = "part001" THEN legacyAnalyzePage(options, w, els)
    ELSE analyzePage(options, r, w, Document(els))

\* updateClipboardButton(): hasFiles
hasFiles(cd) ==
    \/ Len(cd.jsFiles) > 0 /\ cd.jsFiles[1] # "None found"
    \/ Len(cd.cssFiles) > 0 /\ cd.cssFiles[1] # "None found"

\* if (findings.jsFiles) clipboardData.jsFiles = findings.jsFiles, and the
\* same for cssFiles: an empty array counts as set
Saved(cd, findings) ==
    [jsFiles |-> IF "jsFiles" \in DOMAIN findings THEN findings["jsFiles"] ELSE cd.jsFiles,
     cssFiles |-> IF "cssFiles" \in DOMAIN findings THEN findings["cssFiles"] ELSE cd.cssFiles]

\* what the popup shows and keeps
View == [reportEl |-> reportEl, clipboardData |-> clipboardData,
         copyDisabled |-> copyDisabled, shown |-> shown]

\* the popup just opened: initializeClipboard disabled the copy button
Opened ==
    [reportEl |-> EmptyReport, clipboardData |-> EmptyClipboard,
     copyDisabled |-> TRUE, shown |-> NoShown]

\* a submission that leaves the copy button as it is
SubmittedKeepingButton(r, ui) ==
    [reportEl |-> EmptyReport, clipboardData |-> EmptyClipboard,
     copyDisabled |-> ui.copyDisabled, shown |-> NoShown]

\* handleFormSubmit before the analysis is started: the report and the
\* clipboard data are reset; src/popup.js and src/unnamed/part_001 disable
\* the copy button, src/js/popup.js and src/unnamed/part_000 leave it
Submitted(r, ui) ==
    [reportEl |-> EmptyReport, clipboardData |-> EmptyClipboard,
     copyDisabled |-> IF r = "part000" THEN ui.copyDisabled ELSE TRUE,
     shown |-> NoShown]

\* the continuation of executeScript for the submission id with its options
ResultsArrived(r, id, error, result, options, ui) ==
    LET findings == IF result.defined THEN result.value ELSE EmptyMap
        displays == error = "" /\ (r # "part000" \/ result.defined)
        cd == Saved(ui.clipboardData, findings)
    IN  IF displays
        THEN [reportEl |-> OnExecuted(HandlerOf(r), error, result, options),
              clipboardData |-> cd,
              copyDisabled |-> ~hasFiles(cd),
              shown |-> [displayed |-> TRUE, id |-> id, findings |-> findings]]
        ELSE IF error # ""
        THEN [ui EXCEPT !.reportEl = OnExecuted(HandlerOf(r), error, result, options)]
        ELSE ui

\* Array.prototype.join(', ')
JoinWith(s, sep) ==
    LET joined[i \in 0..Len(s)] ==
            IF i = 0 THEN ""
            ELSE IF i = 1 THEN s[1]
            ELSE joined[i - 1] \o sep \o s[i]
    IN  joined[Len(s)]

\* [...jsFiles, ...cssFiles] with nothing filtered out
AllFilesUnfiltered(cd) == cd.jsFiles \o cd.cssFiles

\* [...clipboardData.jsFiles, ...clipboardData.cssFiles].filter(file => file !== 'None found')
AllFiles(cd) ==
    LET real(file) == file # "None found"
    IN  SelectSeq(cd.jsFiles \o cd.cssFiles, real)

\* the prompt copyAIPrompt writes
Prompt(allFiles) == "Give me a brief idea what these files are: " \o JoinWith(allFiles, ", ")

\* chrome.storage.local with nothing saved, and no storage read in flight
NoStorage == EmptyMap
NoRequest == [pending |-> FALSE]

\* no file listing has been called
NoListing == [fn |-> "none"]

\* no framework has been evaluated on its own
NoTrial == [fam |-> "none"]

\* the view ui is what the popup shows and keeps from now on
Show(ui) ==
    /\ reportEl' = ui.reportEl
    /\ clipboardData' = ui.clipboardData
    /\ copyDisabled' = ui.copyDisabled
    /\ shown' = ui.shown

\* no invocation is being followed step by step
NoProcs == [i \in {1, 2} |-> [pc |-> "idle"]]

Init ==
    /\ rev \in Revisions
    /\ window = EmptyMap
    /\ nodes = <<>>
    /\ runs = 0
    /\ call = NoCall
    /\ procs = NoProcs
    /\ heap = EmptyMap
    /\ lastError = ""
    /\ reportEl = EmptyReport
    /\ writes = <<>>
    /\ submissions = <<>>
    /\ toast = FALSE
    /\ clipboard = ""
    /\ shown = NoShown
    /\ inflight = {}
    /\ copyDisabled = TRUE
    /\ clipboardData = EmptyClipboard
    /\ clicks = 0
    /\ prefersDark = FALSE
    /\ themeRequest = NoRequest
    /\ storage = NoStorage
    /\ body = {}
    /\ listing = NoListing
    /\ trial = NoTrial

\* the page's scripts run and leave their globals on window; the popup is
\* opened on the page afterwards
RunScripts(w) ==
    /\ window = EmptyMap
    /\ window' = w
    /\ runs' = 0
    /\ call' = NoCall
    /\ lastError' = ""
    /\ Show(Opened)
    /\ UNCHANGED <<rev, nodes, procs, heap, trial, listing, body, storage, themeRequest, prefersDark, clicks, inflight, clipboard, toast, submissions, writes>>

\* the parser appends the template's next element to the page; the popup is
\* opened on the page afterwards
AppendElement(el) ==
    /\ Len(nodes) < MaxNodes
    /\ IF nodes = <<>> THEN TRUE ELSE Rank(nodes[Len(nodes)]) < Rank(el)
    /\ nodes' = Append(nodes, el)
    /\ runs' = 0
    /\ call' = NoCall
    /\ lastError' = ""
    /\ Show(Opened)
    /\ UNCHANGED <<rev, window, procs, heap, trial, listing, body, storage, themeRequest, prefersDark, clicks, inflight, clipboard, toast, submissions, writes>>

\* handleFormSubmit: the popup runs analyzePage(options) in the page and the
\* executeScript callback fills the report element
AnalyzePage(options) ==
    /\ runs = 0
    /\ lastError = ""
    /\ runs' = 1
    /\ call' = analyzePage(options, rev, window, Document(nodes))
    /\ lastError' \in Delivery(call')
    /\ Show(ResultsArrived(rev, runs', lastError', Result(call'), options, Submitted(rev, View)))
    /\ UNCHANGED <<rev, window, nodes, procs, heap, trial, listing, body, storage, themeRequest, prefersDark, clicks, inflight, clipboard, toast, submissions, writes>>

\* the user presses Analyze again: same options, same page
AnalyzeAgain ==
    /\ runs > 0
    /\ runs < MaxRuns
    /\ runs' = runs + 1
    /\ call' = analyzePage(call.options, rev, window, Document(nodes))
    /\ lastError' \in Delivery(call')
    /\ Show(ResultsArrived(rev, runs', lastError', Result(call'), call.options, Submitted(rev, View)))
    /\ UNCHANGED <<rev, window, nodes, procs, heap, trial, listing, body, storage, themeRequest, prefersDark, clicks, inflight, clipboard, toast, submissions, writes>>

\* handleFormSubmit on a tab the extension may not script: executeScript
\* fails and analyzePage never runs, now or when the form is submitted again
InjectionFails(options) ==
    /\ runs = 0
    /\ call = NoCall
    /\ lastError = ""
    /\ lastError' = CannotAccess
    /\ Show(ResultsArrived(rev, 1, lastError', Undefined, options, Submitted(rev, View)))
    /\ UNCHANGED <<rev, window, nodes, runs, call, procs, heap, trial, listing, body, storage, themeRequest, prefersDark, clicks, inflight, clipboard, toast, submissions, writes>>

Next ==
    \/ \E w \in Windows : RunScripts(w)
    \/ \E el \in NodeKinds : AppendElement(el)
    \/ \E options \in OptionValues : AnalyzePage(options)
    \/ AnalyzeAgain
    \/ \E options \in FormOptions : InjectionFails(options)

Spec == Init /\ [][Next]_vars

----------------------------------------------------------------------------
(* Two invocations of analyzePage followed signal by signal.  Every        *)
(* invocation evaluates the FRAMEWORK_DETECTION literal inside analyzePage, *)
(* so it holds a catalog of its own; heap maps <<catalog, family, index>>  *)
(* to that framework object's confidence field and who wrote it last.      *)

Invocations == {1, 2}

\* one catalog object for every invocation
SharedCatalog(i) == 0

\* const FRAMEWORK_DETECTION = {...} inside analyzePage: the catalog that
\* invocation i builds and holds
CatalogOf(i) == i

Cell(i, pos) == <<CatalogOf(i), pos.fam, pos.fi>>

\* the framework objects of a catalog just built by invocation i
FreshCatalog(i, r) ==
    [c \in {<<CatalogOf(i), "js", n>> : n \in 1..Len(FRAMEWORK_DETECTION(r).js)}
            \cup {<<CatalogOf(i), "css", n>> : n \in 1..Len(FRAMEWORK_DETECTION(r).css)}
        |-> [object |-> FRAMEWORK_DETECTION(r)[c[2]][c[3]], writer |-> i]]

\* where a pass stands: family, framework, and k = 0 before the reset,
\* k = n after the n-th signal; "done" after the last enabled family
Done == [fam |-> "done", fi |-> 0, k |-> 0]
FirstPos(options) ==
    IF OptionSet(options, "jsFrameworks") THEN [fam |-> "js", fi |-> 1, k |-> 0]
    ELSE IF OptionSet(options, "cssFrameworks") THEN [fam |-> "css", fi |-> 1, k |-> 0]
    ELSE Done

\* the position after the threshold check of framework pos.fi
NextFramework(options, r, pos) ==
    IF pos.fi < Len(FRAMEWORK_DETECTION(r)[pos.fam])
    THEN [fam |-> pos.fam, fi |-> pos.fi + 1, k |-> 0]
    ELSE IF pos.fam = "js" /\ OptionSet(options, "cssFrameworks")
    THEN [fam |-> "css", fi |-> 1, k |-> 0]
    ELSE Done

\* the options of the invocations followed: the JS family, with or without
\* the CSS family
StepOptions ==
    [jsFrameworks : {TRUE}, cssFrameworks : BOOLEAN, listJS : {FALSE},
     listCSS : {FALSE}, debugMode : {FALSE}]

\* the heap without the catalogs no running invocation holds any more
Collect(h, ps) ==
    LET live == {CatalogOf(j) : j \in {x \in Invocations : ps[x].pc = "running"}}
        kept == {c \in DOMAIN h : c[1] \in live}
    IN  [c \in kept |-> h[c]]

\* a page with React on it, loaded before the invocations start
InitStepwise ==
    /\ rev \in Revisions
    /\ window = ("React" :> "object")
    /\ nodes = <<ReactScript, ReactRoot>>
    /\ runs = 0
    /\ call = NoCall
    /\ procs = NoProcs
    /\ heap = EmptyMap
    /\ lastError = ""
    /\ reportEl = EmptyReport
    /\ writes = <<>>
    /\ submissions = <<>>
    /\ toast = FALSE
    /\ clipboard = ""
    /\ shown = NoShown
    /\ inflight = {}
    /\ copyDisabled = TRUE
    /\ clipboardData = EmptyClipboard
    /\ clicks = 0
    /\ prefersDark = FALSE
    /\ themeRequest = NoRequest
    /\ storage = NoStorage
    /\ body = {}
    /\ listing = NoListing
    /\ trial = NoTrial

\* analyzePage(options) is entered: the catalog literal is evaluated
Invoke(i, options) ==
    /\ procs[i].pc = "idle"
    /\ procs' = [procs EXCEPT ![i] =
                    [pc |-> "running", options |-> options, pos |-> FirstPos(options),
                     detected |-> [js |-> <<>>, css |-> <<>>], foreign |-> FALSE]]
    /\ heap' = FreshCatalog(i, rev) @@ heap
    /\ UNCHANGED <<rev, window, nodes, runs, call, lastError, reportEl, trial, listing, body, storage, themeRequest, prefersDark, clicks, clipboardData, copyDisabled, inflight, shown, clipboard, toast, submissions, writes>>

\* framework.confidence = 0
StepReset(i) ==
    /\ procs[i].pc = "running"
    /\ procs[i].pos.fam # "done"
    /\ procs[i].pos.k = 0
    /\ heap' = [heap EXCEPT ![Cell(i, procs[i].pos)] =
                  [object |-> [@.object EXCEPT !.confidence =
                                   ResetConfidence(heap[Cell(i, procs[i].pos)].object)],
                   writer |-> i]]
    /\ procs' = [procs EXCEPT ![i].pos.k = 1]
    /\ UNCHANGED <<rev, window, nodes, runs, call, lastError, reportEl, trial, listing, body, storage, themeRequest, prefersDark, clicks, clipboardData, copyDisabled, inflight, shown, clipboard, toast, submissions, writes>>

\* a signal's evaluation that also takes the signal off the framework
AddSignalConsuming(i, cell, res) ==
    [object |-> [cell.object EXCEPT !.confidence = @ + res.added,
                                    !.signals = [@ EXCEPT ![1] = [@ EXCEPT !.weight = 0]]],
     writer |-> i]

\* framework.confidence += ...: what one signal's evaluation leaves on the
\* framework object it reads
AddSignal(i, cell, res) ==
    [object |-> [cell.object EXCEPT !.confidence = @ + res.added], writer |-> i]

\* one signal of the framework is evaluated
StepSignal(i) ==
    /\ procs[i].pc = "running"
    /\ procs[i].pos.fam # "done"
    /\ procs[i].pos.k >= 1
    /\ procs[i].pos.k <= Len(heap[Cell(i, procs[i].pos)].object.signals)
    /\ heap' = [heap EXCEPT ![Cell(i, procs[i].pos)] =
                  AddSignal(i, @,
                      EvaluateSignal(@.object.signals[procs[i].pos.k],
                          rev, window, Document(nodes), procs[i].options.debugMode))]
    /\ procs' = [procs EXCEPT ![i].pos.k = @ + 1,
                              ![i].foreign = @ \/ heap[Cell(i, procs[i].pos)].writer # i]
    /\ UNCHANGED <<rev, window, nodes, runs, call, lastError, reportEl, trial, listing, body, storage, themeRequest, prefersDark, clicks, clipboardData, copyDisabled, inflight, shown, clipboard, toast, submissions, writes>>

\* if (framework.confidence >= framework.minConfidence) push(framework.name)
StepThreshold(i) ==
    /\ procs[i].pc = "running"
    /\ procs[i].pos.fam # "done"
    /\ procs[i].pos.k > Len(heap[Cell(i, procs[i].pos)].object.signals)
    /\ procs' = [procs EXCEPT
          ![i].detected[procs[i].pos.fam] =
              IF MeetsThreshold(heap[Cell(i, procs[i].pos)].object.confidence,
                                heap[Cell(i, procs[i].pos)].object)
              THEN Append(@, heap[Cell(i, procs[i].pos)].object.name)
              ELSE @,
          ![i].foreign = @ \/ heap[Cell(i, procs[i].pos)].writer # i,
          ![i].pos = NextFramework(procs[i].options, rev, procs[i].pos)]
    /\ UNCHANGED <<rev, window, nodes, runs, call, heap, lastError, reportEl, trial, listing, body, storage, themeRequest, prefersDark, clicks, clipboardData, copyDisabled, inflight, shown, clipboard, toast, submissions, writes>>

\* return findings: the invocation's catalog is dropped with its scope
Return(i) ==
    /\ procs[i].pc = "running"
    /\ procs[i].pos.fam = "done"
    /\ procs' = [procs EXCEPT ![i] =
          [pc |-> "returned", options |-> procs[i].options, foreign |-> procs[i].foreign,
           findings |->
              [jsFrameworks |-> IF OptionSet(procs[i].options, "jsFrameworks")
                                THEN WithSentinel(procs[i].detected.js) ELSE <<>>,
               cssFrameworks |-> IF OptionSet(procs[i].options, "cssFrameworks")
                                 THEN WithSentinel(procs[i].detected.css) ELSE <<>>,
               jsFiles |-> <<>>, cssFiles |-> <<>>]]]
    /\ heap' = Collect(heap, procs')
    /\ UNCHANGED <<rev, window, nodes, runs, call, lastError, reportEl, trial, listing, body, storage, themeRequest, prefersDark, clicks, clipboardData, copyDisabled, inflight, shown, clipboard, toast, submissions, writes>>

NextStepwise ==
    \/ \E i \in Invocations : \E options \in StepOptions : Invoke(i, options)
    \/ \E i \in Invocations : StepReset(i)
    \/ \E i \in Invocations : StepSignal(i)
    \/ \E i \in Invocations : StepThreshold(i)
    \/ \E i \in Invocations : Return(i)

SpecStepwise == InitStepwise /\ [][NextStepwise]_vars

----------------------------------------------------------------------------
(* One framework of the catalog evaluated on a page with its signals list   *)
(* put in another order.                                                    *)

\* the pages of at most n elements, in the order the parser builds
PagesUpTo(n) ==
    {page \in UNION {[1..m -> NodeKinds] : m \in 0..n} :
        \A m \in 1..(Len(page) - 1) : Rank(page[m]) < Rank(page[m + 1])}

\* the framework with its signals in the order p
Reordered(framework, p) ==
    [framework EXCEPT !.signals = [k \in 1..Len(framework.signals) |-> framework.signals[p[k]]]]

\* a page that has finished loading
InitOrder ==
    /\ rev \in Revisions
    /\ window \in Windows
    /\ nodes \in PagesUpTo(MaxTrialNodes)
    /\ runs = 0
    /\ call = NoCall
    /\ procs = NoProcs
    /\ heap = EmptyMap
    /\ lastError = ""
    /\ reportEl = EmptyReport
    /\ writes = <<>>
    /\ submissions = <<>>
    /\ toast = FALSE
    /\ clipboard = ""
    /\ shown = NoShown
    /\ inflight = {}
    /\ copyDisabled = TRUE
    /\ clipboardData = EmptyClipboard
    /\ clicks = 0
    /\ prefersDark = FALSE
    /\ themeRequest = NoRequest
    /\ storage = NoStorage
    /\ body = {}
    /\ listing = NoListing
    /\ trial = NoTrial

\* the body of frameworkList.forEach for framework fi of family fam, run in
\* debug mode over the signals in the order p
EvaluateReordered(fam, fi, p) ==
    /\ trial = NoTrial
    /\ trial' = [fam |-> fam, fi |-> fi, order |-> p,
                 result |-> EvaluateFramework(
                                Reordered(FRAMEWORK_DETECTION(rev)[fam][fi], p),
                                rev, window, Document(nodes), TRUE)]
    /\ UNCHANGED <<rev, window, nodes, runs, call, procs, heap, lastError, reportEl, listing, body, storage, themeRequest, prefersDark, clicks, clipboardData, copyDisabled, inflight, shown, clipboard, toast, submissions, writes>>

NextOrder ==
    \E fam \in {"js", "css"} :
        \E fi \in 1..Len(FRAMEWORK_DETECTION(rev)[fam]) :
            \E p \in Permutations(1..Len(FRAMEWORK_DETECTION(rev)[fam][fi].signals)) :
                EvaluateReordered(fam, fi, p)

SpecOrder == InitOrder /\ [][NextOrder]_vars

----------------------------------------------------------------------------
(* The file listings called on a page of script and stylesheet tags *)

\* the pages of at most n script and stylesheet tags
FilePagesUpTo(n) ==
    {page \in UNION {[1..m -> FileNodeKinds] : m \in 0..n} :
        \A m \in 1..(Len(page) - 1) : FileRank(page[m]) < FileRank(page[m + 1])}

InitFiles ==
    /\ rev \in Revisions
    /\ window = EmptyMap
    /\ nodes \in FilePagesUpTo(MaxFileNodes)
    /\ runs = 0
    /\ call = NoCall
    /\ procs = NoProcs
    /\ heap = EmptyMap
    /\ lastError = ""
    /\ reportEl = EmptyReport
    /\ writes = <<>>
    /\ submissions = <<>>
    /\ toast = FALSE
    /\ clipboard = ""
    /\ shown = NoShown
    /\ inflight = {}
    /\ copyDisabled = TRUE
    /\ clipboardData = EmptyClipboard
    /\ clicks = 0
    /\ prefersDark = FALSE
    /\ themeRequest = NoRequest
    /\ storage = NoStorage
    /\ body = {}
    /\ trial = NoTrial
    /\ listing = NoListing

\* findJavaScriptFiles() is called on the page
FindJavaScriptFiles ==
    /\ listing = NoListing
    /\ listing' = [fn |-> "findJavaScriptFiles",
                   threw |-> findJavaScriptFiles(nodes).threw,
                   files |-> findJavaScriptFiles(nodes).files]
    /\ UNCHANGED <<rev, window, nodes, runs, call, procs, heap, lastError, reportEl, trial, body, storage, themeRequest, prefersDark, clicks, clipboardData, copyDisabled, inflight, shown, clipboard, toast, submissions, writes>>

\* findCSSFiles() is called on the page
FindCSSFiles ==
    /\ listing = NoListing
    /\ listing' = [fn |-> "findCSSFiles",
                   threw |-> findCSSFiles(rev, nodes).threw,
                   files |-> findCSSFiles(rev, nodes).files]
    /\ UNCHANGED <<rev, window, nodes, runs, call, procs, heap, lastError, reportEl, trial, body, storage, themeRequest, prefersDark, clicks, clipboardData, copyDisabled, inflight, shown, clipboard, toast, submissions, writes>>

NextFiles == FindJavaScriptFiles \/ FindCSSFiles

SpecFiles == InitFiles /\ [][NextFiles]_vars

----------------------------------------------------------------------------
(* What the last call did, as the properties below read it *)

Families == {"js", "css"}

\* the catalog list of a family, in the revision installed
Catalog(f) == FRAMEWORK_DETECTION(rev)[f]

\* getDetectedFrameworks was called for family f, and it returned
Ran(f) == call.outcome # "none" /\ call[f].ran
Returned(f) == Ran(f) /\ ~call[f].threw

\* the flag and the findings field of a family
FlagOf(f) == IF f = "js" THEN "jsFrameworks" ELSE "cssFrameworks"
Enabled(f) == FlagOf(f) \in DOMAIN call.options /\ call.options[FlagOf(f)] = TRUE
Found(f) == IF f = "js" THEN call.findings.jsFrameworks ELSE call.findings.cssFrameworks

\* the framework passes of family f that ran, by position in the catalog
Passes(f) == 1..Len(call[f].evaluated)
Pass(f, i) == call[f].evaluated[i]
ReachedThreshold(f, i) == Pass(f, i).confidence >= Catalog(f)[i].minConfidence

\* the signals evaluated by the last call: <<family, framework, signal>>
EvaluatedSignals ==
    IF call.outcome = "none" THEN {}
    ELSE UNION { UNION { {<<f, i, k>> : k \in 1..Len(Pass(f, i).results)} : i \in Passes(f) }
                 : f \in Families }
SignalOf(s) == Catalog(s[1])[s[2]].signals[s[3]]
ResultOf(s) == Pass(s[1], s[2]).results[s[3]]

\* every framework of the family was passed over, every signal evaluated
Complete(f) ==
    /\ Len(call[f].evaluated) = Len(Catalog(f))
    /\ \A i \in Passes(f) : Len(Pass(f, i).results) = Len(Catalog(f)[i].signals)

----------------------------------------------------------------------------
(* The popup's theme: initializeTheme and toggleTheme *)

Themes == {"dark", "light"}

ThemeClass(theme) == theme \o "-theme"

\* chrome.storage.local.get('theme', callback): the items handed to the
\* callback are those saved when the read was asked for
GetTheme(saved) == [pending |-> TRUE, items |-> saved]

\* the callback of initializeTheme on the items read: it adds a class to
\* body and removes none
ThemeLoaded(classes, items, dark) ==
    IF "theme" \in DOMAIN items /\ items["theme"] = "dark" THEN classes \cup {"dark-theme"}
    ELSE IF "theme" \in DOMAIN items /\ items["theme"] = "light" THEN classes \cup {"light-theme"}
    ELSE IF dark THEN classes \cup {"dark-theme"}
    ELSE classes

\* the theme toggleTheme switches to
Toggled(classes) == IF "dark-theme" \in classes THEN "light" ELSE "dark"

\* a popup just opened: DOMContentLoaded has called initializeTheme
InitTheme ==
    /\ rev = "popup"
    /\ window = EmptyMap
    /\ nodes = <<>>
    /\ runs = 0
    /\ call = NoCall
    /\ procs = NoProcs
    /\ heap = EmptyMap
    /\ lastError = ""
    /\ reportEl = EmptyReport
    /\ writes = <<>>
    /\ submissions = <<>>
    /\ toast = FALSE
    /\ clipboard = ""
    /\ shown = NoShown
    /\ inflight = {}
    /\ copyDisabled = TRUE
    /\ clipboardData = EmptyClipboard
    /\ trial = NoTrial
    /\ listing = NoListing
    /\ body = {}
    /\ storage \in {NoStorage} \cup {("theme" :> t) : t \in Themes}
    /\ themeRequest = GetTheme(storage)
    /\ prefersDark \in BOOLEAN
    /\ clicks = 0

\* the popup is closed and opened again: a new document, and
\* DOMContentLoaded calls initializeTheme
DOMContentLoaded ==
    /\ body' = {}
    /\ themeRequest' = GetTheme(storage)
    /\ UNCHANGED <<rev, window, nodes, runs, call, procs, heap, lastError, reportEl, trial, listing, storage, prefersDark, clicks, clipboardData, copyDisabled, inflight, shown, clipboard, toast, submissions, writes>>

\* the callback of chrome.storage.local.get runs
ThemeCallback ==
    /\ themeRequest.pending
    /\ body' = ThemeLoaded(body, themeRequest.items, prefersDark)
    /\ themeRequest' = NoRequest
    /\ UNCHANGED <<rev, window, nodes, runs, call, procs, heap, lastError, reportEl, trial, listing, storage, prefersDark, clicks, clipboardData, copyDisabled, inflight, shown, clipboard, toast, submissions, writes>>

\* toggleTheme(): a click on the theme toggle
ToggleTheme ==
    /\ clicks < MaxClicks
    /\ clicks' = clicks + 1
    /\ body' = (body \ {ThemeClass(t) : t \in Themes \ {Toggled(body)}})
                    \cup {ThemeClass(Toggled(body))}
    /\ storage' = ("theme" :> Toggled(body))
    /\ UNCHANGED <<rev, window, nodes, runs, call, procs, heap, lastError, reportEl, trial, listing, themeRequest, prefersDark, clipboardData, copyDisabled, inflight, shown, clipboard, toast, submissions, writes>>

NextTheme == DOMContentLoaded \/ ThemeCallback \/ ToggleTheme

SpecTheme == InitTheme /\ [][NextTheme]_vars

----------------------------------------------------------------------------
(* The popup on a page: submissions, their results, the copy button *)

\* what the form's check boxes give
ListJs ==
    [jsFrameworks |-> FALSE, cssFrameworks |-> FALSE, listJS |-> TRUE,
     listCSS |-> FALSE, debugMode |-> FALSE]
ListBoth ==
    [jsFrameworks |-> FALSE, cssFrameworks |-> FALSE, listJS |-> TRUE,
     listCSS |-> TRUE, debugMode |-> FALSE]
FrameworksOnly ==
    [jsFrameworks |-> TRUE, cssFrameworks |-> TRUE, listJS |-> FALSE,
     listCSS |-> FALSE, debugMode |-> FALSE]

PopupOptions == {ListJs, ListBoth, FrameworksOnly}

\* the pages the popup is opened on
PopupPages == {<<AppScript, PlainCss>>, <<PlainCss>>, <<SvgScript, PlainCss>>}

\* DOMContentLoaded has run: initializeClipboard disabled the copy button
InitPopup ==
    /\ rev \in PopupRevisions
    /\ window = EmptyMap
    /\ nodes \in PopupPages
    /\ runs = 0
    /\ call = NoCall
    /\ procs = NoProcs
    /\ heap = EmptyMap
    /\ lastError = ""
    /\ reportEl = EmptyReport
    /\ trial = NoTrial
    /\ listing = NoListing
    /\ body = {}
    /\ storage = NoStorage
    /\ themeRequest = NoRequest
    /\ prefersDark = FALSE
    /\ clicks = 0
    /\ clipboardData = EmptyClipboard
    /\ copyDisabled = TRUE
    /\ submissions = <<>>
    /\ inflight = {}
    /\ shown = NoShown
    /\ clipboard = ""
    /\ writes = <<>>
    /\ toast = FALSE

\* handleFormSubmit: the form is submitted with options; the analysis is
\* started and its results arrive later
Submit(options) ==
    /\ Len(submissions) < MaxSubmits
    /\ submissions' = Append(submissions, options)
    /\ inflight' = inflight \cup {Len(submissions) + 1}
    /\ Show(Submitted(rev, View))
    /\ UNCHANGED <<rev, window, nodes, runs, call, procs, heap, lastError, trial, listing, body, storage, themeRequest, prefersDark, clicks, clipboard, writes, toast>>

\* the results of submission id arrive: analyzePage has run in the page and
\* the continuation of executeScript runs in the popup
Arrive(id) ==
    /\ id \in inflight
    /\ inflight' = inflight \ {id}
    /\ call' = InjectedCall(rev, submissions[id], window, nodes)
    /\ lastError' \in Delivery(call')
    /\ Show(ResultsArrived(rev, id, lastError', Result(call'), submissions[id], View))
    /\ UNCHANGED <<rev, window, nodes, runs, procs, heap, trial, listing, body, storage, themeRequest, prefersDark, clicks, submissions, clipboard, writes, toast>>

\* executeScript fails for submission id: analyzePage does not run
ArriveError(id) ==
    /\ id \in inflight
    /\ inflight' = inflight \ {id}
    /\ lastError' = CannotAccess
    /\ Show(ResultsArrived(rev, id, lastError', Undefined, submissions[id], View))
    /\ UNCHANGED <<rev, window, nodes, runs, call, procs, heap, trial, listing, body, storage, themeRequest, prefersDark, clicks, submissions, clipboard, writes, toast>>

\* copyAIPrompt(): a click on the copy button, which a disabled button
\* does not deliver
CopyAIPrompt ==
    /\ ~copyDisabled
    /\ Len(writes) < MaxWrites
    /\ writes' = IF Len(AllFiles(clipboardData)) = 0 THEN writes
                 ELSE Append(writes, Prompt(AllFiles(clipboardData)))
    /\ UNCHANGED <<rev, window, nodes, runs, call, procs, heap, lastError, reportEl, trial, listing, body, storage, themeRequest, prefersDark, clicks, clipboardData, copyDisabled, submissions, inflight, shown, clipboard, toast>>

\* navigator.clipboard.writeText resolves: .then(() => showToast(...))
WriteResolves ==
    /\ writes # <<>>
    /\ clipboard' = Head(writes)
    /\ writes' = Tail(writes)
    /\ toast' = TRUE
    /\ UNCHANGED <<rev, window, nodes, runs, call, procs, heap, lastError, reportEl, trial, listing, body, storage, themeRequest, prefersDark, clicks, clipboardData, copyDisabled, submissions, inflight, shown>>

\* navigator.clipboard.writeText rejects: .catch(err => console.error(...))
WriteRejects ==
    /\ writes # <<>>
    /\ writes' = Tail(writes)
    /\ UNCHANGED <<rev, window, nodes, runs, call, procs, heap, lastError, reportEl, trial, listing, body, storage, themeRequest, prefersDark, clicks, clipboardData, copyDisabled, submissions, inflight, shown, clipboard, toast>>

\* the timer of showToast hides the toast
HideToast ==
    /\ toast
    /\ toast' = FALSE
    /\ UNCHANGED <<rev, window, nodes, runs, call, procs, heap, lastError, reportEl, trial, listing, body, storage, themeRequest, prefersDark, clicks, clipboardData, copyDisabled, submissions, inflight, shown, clipboard, writes>>

NextPopup ==
    \/ \E options \in PopupOptions : Submit(options)
    \/ \E id \in 1..MaxSubmits : Arrive(id)
    \/ \E id \in 1..MaxSubmits : ArriveError(id)
    \/ CopyAIPrompt
    \/ WriteResolves
    \/ WriteRejects
    \/ HideToast

SpecPopup == InitPopup /\ [][NextPopup]_vars

----------------------------------------------------------------------------
(* C1 *)

\* C1: after getDetectedFrameworks has evaluated a framework list, a
\* framework's name is in the returned sequence if and only if its accumulated
\* confidence is at least its minConfidence.
C1_DetectedIffThreshold ==
    \A f \in Families :
        Returned(f) =>
            /\ Len(call[f].evaluated) = Len(Catalog(f))
            /\ \A i \in Passes(f) :
                  (Catalog(f)[i].name \in Range(call[f].detectedFrameworks))
                      <=> ReachedThreshold(f, i)

\* a list was evaluated in which one framework sits exactly on its threshold
\* and is returned, and another scored without reaching it and is not
C1_OnAndBelowThreshold ==
    \E f \in Families, g \in Families :
        /\ Returned(f) /\ Returned(g)
        /\ \E i \in Passes(f) :
              /\ Pass(f, i).confidence = Catalog(f)[i].minConfidence
              /\ Catalog(f)[i].name \in Range(call[f].detectedFrameworks)
        /\ \E j \in Passes(g) :
              /\ Pass(g, j).confidence > 0
              /\ Pass(g, j).confidence < Catalog(g)[j].minConfidence
              /\ Catalog(g)[j].name \notin Range(call[g].detectedFrameworks)

----------------------------------------------------------------------------
(* C2 *)

\* the names of the frameworks that reached their threshold, in catalog order
NamesAtThreshold(f) ==
    LET reached(i) == ReachedThreshold(f, i)
        at == SelectSeq([i \in 1..Len(Catalog(f)) |-> i], reached)
    IN  [n \in 1..Len(at) |-> Catalog(f)[at[n]].name]

\* C2: every framework that reaches its threshold appears exactly once in the
\* returned sequence, and the returned names keep the catalog's order whatever
\* their scores.
C2_OnceInCatalogOrder ==
    \A f \in Families :
        Returned(f) =>
            /\ call[f].detectedFrameworks = NamesAtThreshold(f)
            /\ \A m, n \in 1..Len(call[f].detectedFrameworks) :
                  m # n => call[f].detectedFrameworks[m] # call[f].detectedFrameworks[n]

\* two frameworks were returned, the earlier one with the lower score
C2_LowerScoreFirst ==
    \E f \in Families :
        /\ Returned(f)
        /\ \E i, j \in Passes(f) :
              /\ i < j
              /\ ReachedThreshold(f, i) /\ ReachedThreshold(f, j)
              /\ Pass(f, i).confidence < Pass(f, j).confidence
              /\ call[f].detectedFrameworks = <<Catalog(f)[i].name, Catalog(f)[j].name>>

----------------------------------------------------------------------------
(* C3 *)

\* C3: when the framework detection returns, an enabled family whose
\* frameworks all stayed below their thresholds is reported as exactly
\* <<"None detected">>; any other enabled family is reported with names of
\* frameworks that reached their threshold only, the sentinel not among them.
C3_SentinelLaw ==
    call.outcome = "returned" =>
        \A f \in Families :
            Enabled(f) =>
                IF \A i \in Passes(f) : ~ReachedThreshold(f, i)
                THEN Found(f) = <<"None detected">>
                ELSE /\ Found(f) # <<>>
                     /\ \A n \in 1..Len(Found(f)) :
                           \E i \in Passes(f) :
                              ReachedThreshold(f, i) /\ Found(f)[n] = Catalog(f)[i].name

\* one call reported the sentinel for a family in which a signal fired, and a
\* real name for the other family
C3_SentinelAndNames ==
    /\ call.outcome = "returned"
    /\ Enabled("js") /\ Enabled("css")
    /\ call.findings.jsFrameworks = <<"None detected">>
    /\ \E i \in Passes("js") : Pass("js", i).confidence > 0
    /\ call.findings.cssFrameworks = <<"Bootstrap">>

----------------------------------------------------------------------------
(* C4 *)

\* the confidence every framework ended a call with
Confidences(c) ==
    [f \in Families |-> [i \in 1..Len(c[f].evaluated) |-> c[f].evaluated[i].confidence]]

----------------------------------------------------------------------------
(* C5 *)

\* the sum of a sequence of numbers
Sum(seq) ==
    LET upTo[i \in 0..Len(seq)] == IF i = 0 THEN 0 ELSE upTo[i - 1] + seq[i]
    IN  upTo[Len(seq)]

\* the URLs of the page's loaded script and stylesheet tags, lower-cased
LoadedURLs ==
    {toLowerCase(ResolveURL(GetAttr(nodes[n], "src"))) :
        n \in {m \in 1..Len(nodes) : IsScriptWithSrc(nodes[m]) /\ nodes[m].ns = "html"}}
    \cup {toLowerCase(ResolveURL(GetAttr(nodes[n], "href"))) :
            n \in {m \in 1..Len(nodes) : IsStylesheetLink(nodes[m])}}

\* what the claim gives one pattern of a file signal
FileAmountClaimed(weight, pattern) ==
    IF \E url \in LoadedURLs : includes(url, toLowerCase(pattern)) THEN weight
    ELSE IF includes(toLowerCase(outerHTML(nodes)), toLowerCase(pattern)) THEN 1
    ELSE 0

\* C5: every pattern of a file signal contributes the signal's full weight
\* when it occurs in the URL of a loaded script or stylesheet tag, exactly 1
\* when it occurs in the page markup only, and 0 when it occurs in neither.
C5_FileWeights ==
    \A s \in EvaluatedSignals :
        (SignalOf(s).type = "file" /\ ~ResultOf(s).threw) =>
            ResultOf(s).added =
                Sum([k \in 1..Len(SignalOf(s).patterns) |->
                        FileAmountClaimed(SignalOf(s).weight, SignalOf(s).patterns[k])])

----------------------------------------------------------------------------
(* C6 *)

\* the patterns of a class signal that some element's class value contains
ClassPatternsPresent(signal) ==
    {k \in 1..Len(signal.patterns) :
        \E n \in 1..Len(nodes) :
            /\ HasAttr(nodes[n], "class")
            /\ includes(toLowerCase(GetAttr(nodes[n], "class")),
                        toLowerCase(signal.patterns[k]))}

\* C6: a class signal contributes its weight once for each of its patterns
\* that some element's class value contains, however many elements match.
C6_ClassOncePerPattern ==
    \A s \in EvaluatedSignals :
        SignalOf(s).type = "class" =>
            ResultOf(s).added
                = SignalOf(s).weight * Cardinality(ClassPatternsPresent(SignalOf(s)))

\* a class signal was evaluated on a page where two elements carry a class
\* containing the same pattern, and it added its weight once
C6_TwoElementsOnePattern ==
    \E s \in EvaluatedSignals :
        /\ SignalOf(s).type = "class"
        /\ \E k \in 1..Len(SignalOf(s).patterns) : \E m, n \in 1..Len(nodes) :
              /\ m # n
              /\ HasAttr(nodes[m], "class") /\ HasAttr(nodes[n], "class")
              /\ includes(toLowerCase(GetAttr(nodes[m], "class")),
                          toLowerCase(SignalOf(s).patterns[k]))
              /\ includes(toLowerCase(GetAttr(nodes[n], "class")),
                          toLowerCase(SignalOf(s).patterns[k]))
        /\ ResultOf(s).added = SignalOf(s).weight

----------------------------------------------------------------------------
(* C7 *)

\* the patterns of a global signal naming a property that exists on window
\* under exactly that name, with a truthy value
GlobalPatternsTruthy(signal) ==
    {k \in 1..Len(signal.patterns) :
        /\ signal.patterns[k] \in DOMAIN window
        /\ Truthy(window[signal.patterns[k]])}

\* C7: a global signal contributes its weight times the number of its
\* patterns that name an existing, truthy property of the global object under
\* that exact name; absent and falsy properties contribute nothing.
C7_GlobalPerTruthyPattern ==
    \A s \in EvaluatedSignals :
        SignalOf(s).type = "global" =>
            ResultOf(s).added
                = SignalOf(s).weight * Cardinality(GlobalPatternsTruthy(SignalOf(s)))

\* one call evaluated a global signal with two truthy patterns, which added
\* twice its weight, and a global signal whose pattern names a falsy property
\* next to a truthy one spelled in another case, which added nothing
C7_TwoTruthyOneFalsy ==
    /\ \E s \in EvaluatedSignals :
          /\ SignalOf(s).type = "global"
          /\ Cardinality(GlobalPatternsTruthy(SignalOf(s))) = 2
          /\ ResultOf(s).added = 2 * SignalOf(s).weight
    /\ \E s \in EvaluatedSignals :
          /\ SignalOf(s).type = "global"
          /\ \E k \in 1..Len(SignalOf(s).patterns) :
                /\ SignalOf(s).patterns[k] \in DOMAIN window
                /\ toLowerCase(SignalOf(s).patterns[k]) \in DOMAIN window
                /\ Truthy(window[toLowerCase(SignalOf(s).patterns[k])])
          /\ ResultOf(s).added = 0

----------------------------------------------------------------------------
(* C8 *)

\* the patterns of an attribute signal that give a well-formed selector and
\* name an attribute, literally or with the data- prefix, of some element
AttributePatternsPresent(signal) ==
    {k \in 1..Len(signal.patterns) :
        /\ IsIdent(signal.patterns[k])
        /\ \E n \in 1..Len(nodes) :
              \/ HasAttr(nodes[n], signal.patterns[k])
              \/ HasAttr(nodes[n], "data-" \o signal.patterns[k])}

\* the evaluation went on after signal s: the next signal of its framework
\* was evaluated, or after the framework's last signal the next framework
ContinuedAfter(s) ==
    /\ s[3] < Len(Catalog(s[1])[s[2]].signals) => Len(Pass(s[1], s[2]).results) > s[3]
    /\ (s[3] = Len(Catalog(s[1])[s[2]].signals) /\ s[2] < Len(Catalog(s[1])))
          => Len(call[s[1]].evaluated) > s[2]

\* C8: an attribute signal adds its weight for every pattern that some
\* element carries as an attribute under the literal name or under the data-
\* prefixed name; a pattern whose selector is malformed adds nothing, raises
\* nothing, and the signals and frameworks after it are still evaluated.
C8_AttributeEitherName ==
    \A s \in EvaluatedSignals :
        SignalOf(s).type = "attribute" =>
            /\ ResultOf(s).added
                  = SignalOf(s).weight * Cardinality(AttributePatternsPresent(SignalOf(s)))
            /\ ~ResultOf(s).threw
            /\ ContinuedAfter(s)

\* one call evaluated an attribute signal that fired on a data- prefixed
\* attribute alone, and an attribute signal holding a malformed pattern after
\* which the whole family was still evaluated
C8_DataVariantAndMalformed ==
    /\ \E s \in EvaluatedSignals :
          /\ SignalOf(s).type = "attribute"
          /\ ResultOf(s).added = SignalOf(s).weight
          /\ \E k \in AttributePatternsPresent(SignalOf(s)) :
                \A n \in 1..Len(nodes) : ~HasAttr(nodes[n], SignalOf(s).patterns[k])
    /\ \E s \in EvaluatedSignals :
          /\ SignalOf(s).type = "attribute"
          /\ \E k \in 1..Len(SignalOf(s).patterns) : ~IsIdent(SignalOf(s).patterns[k])
          /\ Complete(s[1])

----------------------------------------------------------------------------
(* C9 *)

\* the signals the engine evaluates by calling their test
PredicateSignals ==
    {s \in EvaluatedSignals :
        /\ "test" \in DOMAIN SignalOf(s)
        /\ SignalOf(s).type \in PredicateTypes(rev)}

\* what calling the test of signal s does on the page as it is
TestOf(s) == TestOutcome(SignalOf(s).test, window, nodes)

\* C9: a predicate signal whose test throws adds nothing, is not recorded as
\* fired, raises nothing, and the signals and frameworks after it are still
\* evaluated; a predicate whose test returns a truthy value adds the signal's
\* weight once.
C9_PredicateGuarded ==
    \A s \in PredicateSignals :
        /\ TestOf(s) = "throws" =>
              /\ ResultOf(s).added = 0
              /\ ~ResultOf(s).detected
              /\ ResultOf(s).log = <<>>
              /\ ResultOf(s) \notin Range(Pass(s[1], s[2]).detectionDetails)
              /\ ~ResultOf(s).threw
              /\ ContinuedAfter(s)
        /\ TestOf(s) = "true" =>
              /\ ResultOf(s).added = SignalOf(s).weight
              /\ ResultOf(s).detected

\* one call evaluated a predicate whose test threw, went on to the end of the
\* family, and evaluated a predicate whose test returned true
C9_ThrowingAndTruthy ==
    /\ \E s \in PredicateSignals :
          /\ TestOf(s) = "throws"
          /\ Complete(s[1])
          /\ s[2] < Len(Catalog(s[1]))
    /\ \E s \in PredicateSignals :
          /\ TestOf(s) = "true"
          /\ ResultOf(s).added = SignalOf(s).weight

----------------------------------------------------------------------------
(* C10 *)

\* C10: every analyzePage call returns findings that hold jsFrameworks and
\* cssFrameworks and raises nothing to its caller, and an error raised while
\* one signal is evaluated stops nothing but that signal: every framework
\* and signal of a family that runs is evaluated.
C10_NeverPropagates ==
    call.outcome # "none" =>
        /\ call.outcome = "returned"
        /\ {"jsFrameworks", "cssFrameworks"} \subseteq DOMAIN call.findings
        /\ \A f \in Families : Ran(f) => Complete(f)

----------------------------------------------------------------------------
(* C11 *)

\* the signals whose test inspects the rules of the loaded stylesheets
SheetSignals ==
    {s \in PredicateSignals : SignalOf(s).test.kind = "styleSheetSignature"}

\* the page's stylesheets, by position among nodes
SheetAt(n) == nodes[n].tag = "style" \/ IsStylesheetLink(nodes[n])
SheetDenied(n) ==
    /\ IsStylesheetLink(nodes[n])
    /\ ~startsWith(ResolveURL(GetAttr(nodes[n], "href")), PageOrigin \o "/")
SheetMatches(n, signatures) ==
    \E k \in 1..Len(signatures) : includes(nodes[n].text, signatures[k])

\* C11: a stylesheet whose rules cannot be read (cross-origin) counts as a
\* non-match and stops nothing: the signal fires exactly when some readable
\* stylesheet holds a signature, wherever the unreadable ones stand, and the
\* signals and frameworks after it are still evaluated.
C11_CrossOriginSheetSkipped ==
    \A s \in SheetSignals :
        /\ ResultOf(s).detected
              <=> \E n \in 1..Len(nodes) :
                    /\ SheetAt(n) /\ ~SheetDenied(n)
                    /\ SheetMatches(n, SignalOf(s).test.signatures)
        /\ ~ResultOf(s).threw
        /\ ContinuedAfter(s)

\* the signal fired on a readable sheet that stands after an unreadable one
C11_ReadableAfterDenied ==
    \E s \in SheetSignals :
        /\ ResultOf(s).detected
        /\ ResultOf(s).added = SignalOf(s).weight
        /\ \E m, n \in 1..Len(nodes) :
              /\ m < n
              /\ SheetAt(m) /\ SheetDenied(m)
              /\ SheetAt(n) /\ ~SheetDenied(n)
              /\ SheetMatches(n, SignalOf(s).test.signatures)
        /\ Complete(s[1])

----------------------------------------------------------------------------
(* C12 *)

\* the same call without debug mode
WithoutDebug ==
    analyzePage([call.options EXCEPT !.debugMode = FALSE], rev, window, Document(nodes))

\* C12: a call in debug mode ends the same way and returns the same
\* jsFrameworks and cssFrameworks as the call with the same family flags on the
\* same page without debug mode, and a call without debug mode writes nothing
\* to the debug sink.
C12_DebugNeverChangesResult ==
    call.outcome # "none" =>
        IF call.options.debugMode
        THEN LET plain == WithoutDebug
             IN  /\ plain.outcome = call.outcome
                 /\ plain.findings = call.findings
        ELSE call.log = <<>>

\* a debug call that wrote to the sink and named a framework
C12_DebugCallDetects ==
    /\ call.outcome = "returned"
    /\ call.options.debugMode
    /\ call.log # <<>>
    /\ \E f \in Families : Enabled(f) /\ Found(f) # <<"None detected">>

----------------------------------------------------------------------------
(* C13 *)

\* the record of a fired signal: its type, its weight, what matched
SignalRecord(s) ==
    [message |-> "Signal type: " \o ResultOf(s).type
                 \o " (weight: " \o ToString(ResultOf(s).weight) \o ")",
     data |-> ResultOf(s).details]

\* C13: in debug mode the debug sink receives, for every framework evaluated
\* and every signal of it that fired, a record with the signal's type, weight
\* and description of what matched, and no record for a signal that did not
\* fire.
C13_FiredSignalsTraced ==
    (call.outcome = "returned" /\ call.options.debugMode) =>
        \A s \in EvaluatedSignals :
            ResultOf(s).detected <=> SignalRecord(s) \in Range(call.log)

----------------------------------------------------------------------------
(* C14 *)

\* the other family, and the same call with the other family switched off
Other(f) == IF f = "js" THEN "css" ELSE "js"
WithoutOther(f) ==
    analyzePage([call.options EXCEPT ![FlagOf(Other(f))] = FALSE],
                rev, window, Document(nodes))

\* C14: a family whose flag is false or absent has none of its frameworks
\* evaluated and, when the call returns, names no framework; and when both
\* families are enabled, each family's pass and returned list are those of
\* the call that enables that family alone, for the calls that return.
C14_FamiliesIndependent ==
    call.outcome # "none" =>
        \A f \in Families :
            /\ ~Enabled(f) =>
                  /\ ~call[f].ran
                  /\ call[f].evaluated = <<>>
                  /\ call.outcome = "returned" => Found(f) = <<>>
            /\ (call.outcome = "returned" /\ Enabled(f) /\ Enabled(Other(f))) =>
                  LET alone == WithoutOther(f)
                  IN  /\ alone.outcome = "returned"
                      /\ alone[f] = call[f]
                      /\ alone.findings[FlagOf(f)] = Found(f)

\* a call whose options leave jsFrameworks out named a CSS framework and
\* evaluated no JS framework
C14_AbsentFlagOtherDetects ==
    /\ call.outcome = "returned"
    /\ "jsFrameworks" \notin DOMAIN call.options
    /\ Enabled("css")
    /\ Found("css") # <<"None detected">>
    /\ Found("js") = <<>>
    /\ call.js.evaluated = <<>>

----------------------------------------------------------------------------
(* C15 *)

----------------------------------------------------------------------------
(* C16 *)

\* the position of React in the JS catalog
ReactAt == CHOOSE i \in 1..Len(Catalog("js")) : Catalog("js")[i].name = "React"

\* a loaded script tag whose URL contains react.min.js, in any letter case
ReactScriptLoaded ==
    \E n \in 1..Len(nodes) :
        /\ IsScriptWithSrc(nodes[n])
        /\ nodes[n].ns = "html"
        /\ includes(toLowerCase(ResolveURL(GetAttr(nodes[n], "src"))), "react.min.js")

----------------------------------------------------------------------------
(* C17 *)

\* the section displayResults gives the family, and the list it was given
TitleOf(f) == IF f = "js" THEN "JS Frameworks" ELSE "CSS Frameworks"
SectionsOf(f) == {k \in 1..Len(reportEl.sections) : reportEl.sections[k].title = TitleOf(f)}
ListOf(f) == Field(call.findings, FlagOf(f))
IsNoResult(list) ==
    \/ ~list.defined
    \/ list.value = <<>>
    \/ list.value = <<"None detected">>
    \/ list.value = <<"None found">>

\* the names of the frameworks of family f that reached their threshold
DetectedNames(f) == {Catalog(f)[i].name : i \in {j \in Passes(f) : ReachedThreshold(f, j)}}

\* an empty, missing or sentinel-only list of an enabled family is shown as
\* "No results", with no item
C17_SentinelShownAsNoResults ==
    (call.outcome # "none" /\ reportEl.kind = "sections") =>
        \A f \in Families :
            Enabled(f) =>
                /\ Cardinality(SectionsOf(f)) = 1
                /\ \A k \in SectionsOf(f) :
                      IsNoResult(ListOf(f)) =>
                          /\ reportEl.sections[k].body = "No results"
                          /\ reportEl.sections[k].items = <<>>

\* C17: displayResults shows every enabled family's list that is empty,
\* missing or the sentinel alone as "No results", and every framework item it
\* shows is the name of a framework the call detected.
C17_OnlyDetectedNamesShown ==
    /\ C17_SentinelShownAsNoResults
    /\ (call.outcome # "none" /\ reportEl.kind = "sections") =>
          \A f \in Families :
              \A k \in SectionsOf(f) :
                  \A n \in 1..Len(reportEl.sections[k].items) :
                      reportEl.sections[k].items[n] \in DetectedNames(f)

\* a report that shows one family as "No results" for its sentinel and a
\* detected name for the other
C17_SentinelAndNameShown ==
    /\ call.outcome = "returned"
    /\ reportEl.kind = "sections"
    /\ \E f \in Families, g \in Families :
          /\ Enabled(f) /\ Enabled(g)
          /\ Found(f) = <<"None detected">>
          /\ \E k \in SectionsOf(f) : reportEl.sections[k].body = "No results"
          /\ \E k \in SectionsOf(g) : reportEl.sections[k].items # <<>>

----------------------------------------------------------------------------
(* C18 *)

\* C18: when executeScript reports an error for a submission, the report
\* element shows an error line that carries the error's message, and no
\* result section.
C18_InjectionErrorReported ==
    lastError # "" =>
        /\ reportEl.kind = "error"
        /\ includes(reportEl.text, lastError)
        /\ reportEl.sections = <<>>

\* a submission on a tab that may not be scripted ended with the error line
C18_TabNotAccessible ==
    /\ lastError = CannotAccess
    /\ call = NoCall
    /\ reportEl.kind = "error"

----------------------------------------------------------------------------
(* C19 *)

\* C19: every detection call returns after one pass in which every framework
\* of every family that ran, and every signal of each, was evaluated once.
C19_ReturnsAfterOnePass ==
    \A f \in Families :
        Ran(f) =>
            /\ call.outcome = "returned"
            /\ Returned(f)
            /\ Len(call[f].evaluated) = Len(Catalog(f))
            /\ \A i \in Passes(f) : Len(Pass(f, i).results) = Len(Catalog(f)[i].signals)

\* the steps an invocation still has to take before it returns
Remaining(p) ==
    IF p.pc # "running" THEN 0
    ELSE IF p.pos.fam = "done" THEN 1
    ELSE LET list(f) == FRAMEWORK_DETECTION(rev)[f]
             steps(f, n) == Len(list(f)[n].signals) + 2
             rest(f, from) == Sum([n \in 1..(Len(list(f)) - from + 1) |->
                                      steps(f, from + n - 1)])
         IN  1 + rest(p.pos.fam, p.pos.fi) - p.pos.k
               + IF p.pos.fam = "js" /\ OptionSet(p.options, "cssFrameworks")
                 THEN rest("css", 1) ELSE 0

\* on a page where no signal raises, every step of an invocation brings it
\* one step closer to its return: the pass is finite and waits for nothing
StepsCountDown ==
    [][\A i \in Invocations :
          (procs[i].pc = "running" /\ procs'[i] # procs[i])
              => Remaining(procs'[i]) = Remaining(procs[i]) - 1]_vars

----------------------------------------------------------------------------
(* C20 *)

\* the fields of a framework object that define it
Definition(object) ==
    [name |-> object.name, signals |-> object.signals,
     minConfidence |-> object.minConfidence]

\* C20: no step of a detection call changes the name, the signals (types,
\* patterns, weights) or the minConfidence of a framework object, nor the
\* page's globals or elements; a catalog is built as the literal gives it.
C20_FrameEffect ==
    [][/\ window' = window
       /\ nodes' = nodes
       /\ \A c \in DOMAIN heap' :
             Definition(heap'[c].object)
                 = Definition(IF c \in DOMAIN heap THEN heap[c].object
                              ELSE FRAMEWORK_DETECTION(rev)[c[2]][c[3]])]_vars

\* an invocation has raised the confidence of a framework object to its
\* threshold and the object still reads as the catalog defines it
C20_ConfidenceWritten ==
    \E i \in Invocations :
        /\ procs[i].pc = "running"
        /\ procs[i].pos.fam # "done"
        /\ LET object == heap[Cell(i, procs[i].pos)].object
           IN  /\ object.confidence >= object.minConfidence
               /\ Definition(object)
                    = Definition(FRAMEWORK_DETECTION(rev)[procs[i].pos.fam][procs[i].pos.fi])

----------------------------------------------------------------------------
(* C21 *)

\* the framework of the trial evaluated with its signals as the catalog
\* lists them
InCatalogOrder ==
    EvaluateFramework(FRAMEWORK_DETECTION(rev)[trial.fam][trial.fi],
                      rev, window, Document(nodes), TRUE)

\* the signals of a pass that fired, as a bag of trace records
FiredBag(fw) ==
    LET fired == {k \in 1..Len(fw.detectionDetails) : TRUE}
        rec(k) == [type |-> fw.detectionDetails[k].type,
                   weight |-> fw.detectionDetails[k].weight,
                   details |-> fw.detectionDetails[k].details]
    IN  [r \in {rec(k) : k \in fired} |-> Cardinality({k \in fired : rec(k) = r})]

\* C21: a framework evaluated with its signals in any order ends with the
\* confidence, and so the detection, that the catalog's order gives; the
\* signals that fire are the same, only the order of their records differs.
C21_SignalOrderIrrelevant ==
    trial # NoTrial =>
        LET base == InCatalogOrder
        IN  /\ trial.result.threw = base.threw
            /\ ~base.threw =>
                  /\ trial.result.confidence = base.confidence
                  /\ MeetsThreshold(trial.result.confidence, trial.result)
                        <=> MeetsThreshold(base.confidence, base)
                  /\ FiredBag(trial.result) = FiredBag(base)

\* a framework reached its threshold with two signals that fired in the
\* reverse of the catalog's order
C21_DetectedInAnotherOrder ==
    /\ trial # NoTrial
    /\ ~trial.result.threw
    /\ MeetsThreshold(trial.result.confidence, trial.result)
    /\ Len(trial.result.detectionDetails) >= 2
    /\ trial.result.detectionDetails # InCatalogOrder.detectionDetails

----------------------------------------------------------------------------
(* C22 *)

\* the names of the frameworks in the catalog of family f
CatalogNames(f) == {Catalog(f)[i].name : i \in 1..Len(Catalog(f))}

\* C22: every element of a jsFrameworks or cssFrameworks sequence that
\* analyzePage hands back is the name of a framework in that family's
\* catalog or the sentinel "None detected".
C22_OnlyCatalogNamesOrSentinel ==
    call.outcome # "none" =>
        \A f \in Families :
            FlagOf(f) \in DOMAIN call.findings =>
                \A n \in 1..Len(Found(f)) :
                    Found(f)[n] \in CatalogNames(f) \cup {"None detected"}

----------------------------------------------------------------------------
(* C23 *)

\* the signal that the k-th evaluation of the trial was made of
TrialSignal(k) == FRAMEWORK_DETECTION(rev)[trial.fam][trial.fi].signals[trial.order[k]]

\* the patterns of a file signal found in the page's markup or in the URL of
\* a script tag
FilePatternsMatched(signal) ==
    {k \in 1..Len(signal.patterns) :
        \/ includes(toLowerCase(outerHTML(nodes)), toLowerCase(signal.patterns[k]))
        \/ \E url \in LoadedURLs : includes(url, toLowerCase(signal.patterns[k]))}

\* added is what a fired signal may contribute by the claim
IsContribution(signal, added) ==
    IF signal.type = "global"
    THEN added = signal.weight * Cardinality(GlobalPatternsTruthy(signal))
    ELSE IF signal.type = "attribute"
    THEN added = signal.weight * Cardinality(AttributePatternsPresent(signal))
    ELSE IF signal.type = "class"
    THEN added = signal.weight * Cardinality(ClassPatternsPresent(signal))
    ELSE IF signal.type = "file"
    THEN \E full \in SUBSET FilePatternsMatched(signal) :
            added = signal.weight * Cardinality(full)
                    + Cardinality(FilePatternsMatched(signal) \ full)
    ELSE IF signal.type \in PredicateTypes(rev) /\ "test" \in DOMAIN signal
    THEN added = IF TestOutcome(signal.test, window, nodes) = "true"
                 THEN signal.weight ELSE 0
    ELSE added = 0

\* the most a signal can contribute: weight x max(1, number of patterns)
MostOf(signal) ==
    signal.weight * (IF "patterns" \in DOMAIN signal /\ Len(signal.patterns) > 1
                     THEN Len(signal.patterns) ELSE 1)

\* C23: when a framework's evaluation ends, its confidence is the sum of
\* what its signals contributed (weight per matched pattern for global,
\* attribute and class, weight or 1 per matched pattern for file, weight for
\* a truthy predicate), no signal took anything off it, and it lies between
\* 0 and the sum over the signals of weight x max(1, number of patterns).
C23_ConfidenceIsSumOfContributions ==
    (trial # NoTrial /\ ~trial.result.threw) =>
        LET results == trial.result.results
            signals == FRAMEWORK_DETECTION(rev)[trial.fam][trial.fi].signals
        IN  /\ Len(results) = Len(signals)
            /\ \A k \in 1..Len(results) :
                  /\ IsContribution(TrialSignal(k), results[k].added)
                  /\ results[k].added >= 0
            /\ trial.result.confidence = Sum([k \in 1..Len(results) |-> results[k].added])
            /\ trial.result.confidence >= 0
            /\ trial.result.confidence
                  <= Sum([k \in 1..Len(signals) |-> MostOf(signals[k])])

\* a framework ended with the full weight of a file pattern found in a
\* script src on top of what another signal contributed
C23_FileAndAnotherSignal ==
    /\ trial # NoTrial
    /\ ~trial.result.threw
    /\ \E k, m \in 1..Len(trial.result.results) :
          /\ k # m
          /\ TrialSignal(k).type = "file"
          /\ trial.result.results[k].added = TrialSignal(k).weight
          /\ TrialSignal(k).weight > 1
          /\ trial.result.results[m].added > 0
          /\ trial.result.confidence
                = trial.result.results[k].added + trial.result.results[m].added

----------------------------------------------------------------------------
(* C24 *)

\* the path of a URL as written: what precedes the query string
PathOf(src) ==
    IF URL(src).ok THEN URL(src).pathname
    ELSE IF IndexOf(src, "?", 1) = 0 THEN src
    ELSE SubSeq(src, 1, IndexOf(src, "?", 1) - 1)

HasQuery(src) == IF URL(src).ok THEN URL(src).search # "" ELSE includes(src, "?")

PassesFilter(src) ==
    /\ includes(PathOf(src), ".")
    /\ ~HasQuery(src)
    /\ ~includes(PathOf(src), "/api/")
    /\ ~includes(PathOf(src), "/json")

\* the non-empty final path segments of the URLs that pass, in document order
FilteredNames(urls) ==
    LET named(src) == PassesFilter(src) /\ Pop(Split(PathOf(src), "/")) # ""
        passing == SelectSeq(urls, named)
    IN  [k \in 1..Len(passing) |-> Pop(Split(PathOf(passing[k]), "/"))]

ListsFiltered(l, urls) ==
    /\ ~l.threw
    /\ l.files = IF Len(FilteredNames(urls)) = 0 THEN <<"None found">>
                  ELSE FilteredNames(urls)

ScriptURLs ==
    LET scripts == SelectSeq(nodes, IsScriptWithSrc)
    IN  [k \in 1..Len(scripts) |-> ResolveURL(GetAttr(scripts[k], "src"))]

StylesheetURLs ==
    LET links == SelectSeq(nodes, IsStylesheetLink)
    IN  [k \in 1..Len(links) |-> ResolveURL(GetAttr(links[k], "href"))]

\* C24: findJavaScriptFiles and findCSSFiles (src/js/file-analyzer.js,
\* src/popup.js) return exactly <<"None found">> when no URL passes the filter,
\* and otherwise, in document order, the non-empty final path segments of the
\* URLs whose path contains a '.', that have no query string and whose path
\* contains neither '/api/' nor '/json'.
C24_ListsExactlyFilteredFiles ==
    /\ listing.fn = "findJavaScriptFiles" => ListsFiltered(listing, ScriptURLs)
    /\ (listing.fn = "findCSSFiles" /\ rev = "popup") => ListsFiltered(listing, StylesheetURLs)

\* the same on pages whose URLs all parse and whose scripts are HTML scripts
C24_ListsFilteredOfParsedURLs ==
    (\A k \in 1..Len(nodes) : nodes[k] \notin {SvgScript, BrokenScript})
        => C24_ListsExactlyFilteredFiles

----------------------------------------------------------------------------
(* C30 *)

NoRepeats(files) == \A j, k \in 1..Len(files) : files[j] = files[k] => j = k

InList(files, name) == \E k \in 1..Len(files) : files[k] = name

\* the common names the lower-cased URL contains, by their place in the list
CommonNamesIn(href) ==
    {k \in 1..Len(importantCssPatterns) :
        includes(toLowerCase(href), importantCssPatterns[k])}

\* C30 as stated: findCSSFiles of src/unnamed/part_000 returns no file name
\* twice, and a stylesheet whose URL contains one of the common names is
\* listed under that name.
C30_ListedUnderEveryCommonName ==
    (listing.fn = "findCSSFiles" /\ rev = "part000") =>
        /\ NoRepeats(listing.files)
        /\ \A k \in 1..Len(StylesheetURLs) : \A n \in CommonNamesIn(StylesheetURLs[k]) :
                InList(listing.files, importantCssPatterns[n])

\* C30 amended: findCSSFiles of src/unnamed/part_000 returns no file name
\* twice, and a stylesheet whose lower-cased URL contains common names is
\* listed under the first of them in the list's order, whatever the ordinary
\* filter makes of the URL.
C30_ListedUnderFirstCommonName ==
    (listing.fn = "findCSSFiles" /\ rev = "part000") =>
        /\ NoRepeats(listing.files)
        /\ \A k \in 1..Len(StylesheetURLs) :
                CommonNamesIn(StylesheetURLs[k]) # {} =>
                    \E n \in CommonNamesIn(StylesheetURLs[k]) :
                        /\ \A m \in CommonNamesIn(StylesheetURLs[k]) : n <= m
                        /\ InList(listing.files, importantCssPatterns[n])

\* two stylesheets named main.css, the second under /api/ with a query string
C30_ApiStylesheetListedOnce ==
    /\ listing.fn = "findCSSFiles"
    /\ rev = "part000"
    /\ nodes = <<MainCss, ApiCss>>
    /\ listing.files = <<"main.css">>

----------------------------------------------------------------------------
(* C27 *)

\* C27: however the stored-theme callback of initializeTheme interleaves with
\* toggleTheme clicks, body never carries both dark-theme and light-theme,
\* and once the toggle has been clicked the theme saved to storage is the
\* theme class shown.
C27_OneThemeAndSavedIsShown ==
    /\ ~({"dark-theme", "light-theme"} \subseteq body)
    /\ (clicks > 0 /\ body \cap {"dark-theme", "light-theme"} # {}) =>
            body \cap {"dark-theme", "light-theme"} = {ThemeClass(storage["theme"])}

----------------------------------------------------------------------------
(* C25 *)

\* the entries of clipboardData other than the placeholder, JS files first
RealEntries ==
    LET all == clipboardData.jsFiles \o clipboardData.cssFiles
        at == {k \in 1..Len(all) : all[k] # "None found"}
        nth(n) == CHOOSE k \in at : Cardinality({j \in at : j < k}) = n - 1
    IN  [n \in 1..Cardinality(at) |-> all[nth(n)]]

\* C25: copyAIPrompt writes to the clipboard only when clipboardData holds
\* an entry other than "None found"; the prompt written lists every such
\* entry, JS files first and CSS files after, and never the placeholder; the
\* toast appears only when a write has succeeded.
C25_CopiesRealFilesOnly ==
    [][/\ Len(writes') > Len(writes) =>
            /\ Len(RealEntries) > 0
            /\ writes'[Len(writes')]
                  = "Give me a brief idea what these files are: " \o JoinWith(RealEntries, ", ")
            /\ ~includes(writes'[Len(writes')], "None found")
       /\ (toast' /\ ~toast) => (writes # <<>> /\ clipboard' = Head(writes))
       /\ clipboard' # clipboard => (writes # <<>> /\ clipboard' = Head(writes))]_vars

\* the prompt is on the clipboard and the toast is up while clipboardData
\* holds the placeholder for the JS files
C25_PromptCopied ==
    /\ clipboardData = [jsFiles |-> <<"None found">>, cssFiles |-> <<"site.css">>]
    /\ clipboard = "Give me a brief idea what these files are: site.css"
    /\ toast

----------------------------------------------------------------------------
(* C26 *)

\* the copy button is enabled only while clipboardData holds a real file name
EnabledOnlyWithFiles == ~copyDisabled => Len(RealEntries) > 0

\* the copy button is disabled while the latest submission is in flight
DisabledWhileAnalysing == Len(submissions) \in inflight => copyDisabled

\* C26: in every state of the popup the copy button is enabled only if
\* clipboardData holds at least one real file name, and it is disabled from
\* a form submission until that submission's results are displayed.
C26_CopyButtonFollowsClipboardData ==
    EnabledOnlyWithFiles /\ DisabledWhileAnalysing

----------------------------------------------------------------------------
(* C28 *)

\* the options of the most recent submission
LatestOptions == submissions[Len(submissions)]

\* C28: once every submitted analysis has completed (the last completion
\* without an error), the report shows the result of the most recently
\* submitted analysis, rendered with that submission's own options.
C28_ReportShowsLatestSubmission ==
    (submissions # <<>> /\ inflight = {} /\ lastError = "" /\ shown.displayed) =>
        /\ shown.id = Len(submissions)
        /\ reportEl = displayResults(shown.findings, LatestOptions)

----------------------------------------------------------------------------
(* C29 *)

\* the file list of findings under key, empty when the analysis listed none
FilesOf(findings, key) == IF key \in DOMAIN findings THEN findings[key] ELSE <<>>

\* C29: whenever result sections are displayed, clipboardData.jsFiles and
\* clipboardData.cssFiles are the file lists of the findings displayed, empty
\* when that analysis listed no files.
C29_ClipboardDataIsOfDisplayedFindings ==
    (shown.displayed /\ reportEl.kind = "sections") =>
        /\ clipboardData.jsFiles = FilesOf(shown.findings, "jsFiles")
        /\ clipboardData.cssFiles = FilesOf(shown.findings, "cssFiles")

=============================================================================
